---- MODULE Spec2Model ----
(***************************************************************************)
(* Group-analysis plugin: the recency cache of MessageStorageService, the  *)
(* model resolver and extraction calls of LLMService, the aggregation of   *)
(* calculateBasicStats and the report assembly of GroupAnalysisService.    *)
(*                                                                         *)
(* Strings are sequences of one-character strings, so that                 *)
(* String.prototype.includes is a real substring test.  The empty sequence *)
(* stands for both '' and undefined wherever the code only tests           *)
(* truthiness.                                                             *)
(***************************************************************************)
EXTENDS Integers, Sequences, FiniteSets, TLC

(***************************************************************************)
(* Bounds of the model.                                                    *)
(***************************************************************************)
\* message events delivered to the storage service
MaxEvents == 3
\* largest value of the clock Date.now() and of a message timestamp
MaxTime == 3

(***************************************************************************)
(* Generic helpers.                                                        *)
(***************************************************************************)
\* String.prototype.includes: target occurs in s as a contiguous substring
Includes(s, target) ==
    \E i \in 0..(Len(s) - Len(target)) :
        SubSeq(s, i + 1, i + Len(target)) = target

\* the sequences over S of length at most n
RECURSIVE SeqsUpTo(_, _)
SeqsUpTo(S, n) ==
    IF n = 0 THEN { <<>> }
    ELSE LET shorter == SeqsUpTo(S, n - 1)
         IN  shorter \cup { Append(q, x) : q \in { r \in shorter : Len(r) = n - 1 }, x \in S }

\* Array.prototype.slice(0, n)
Slice0(s, n) == SubSeq(s, 1, IF Len(s) < n THEN Len(s) ELSE n)

\* Map.prototype.set / Map.prototype.delete on a function whose domain is the
\* set of keys present
MapSet(m, k, v) == [x \in (DOMAIN m) \cup {k} |-> IF x = k THEN v ELSE m[x]]
MapDelete(m, k) == [x \in (DOMAIN m) \ {k} |-> m[x]]

(***************************************************************************)
(* State.                                                                  *)
(***************************************************************************)
\* MessageStorageService (services/storage.ts)
VARIABLES
    messageCache,   \* Map<string, StoredMessage[]>: key -> messages, newest first
    now,            \* Date.now()
    eventCount,     \* message events delivered so far (also the next message id)
    dbPending,      \* ids of messages whose db.insert is in flight
    db,             \* ids of messages persisted to the database
    cacheLog,       \* history: the messages passed to addToCache, oldest first
    justSwept,      \* history: the last step was a run of cleanExpiredCache
    handlerErrors   \* rejections of handleMessage that reached the event source

\* LLMService (services/llm.ts)
VARIABLES
    configModel,      \* config.llm.model, <<>> when not configured
    availableModels,  \* LLMService.availableModels
    resolvedModel,    \* LLMService.resolvedModel, <<>> when undefined
    firstResolved,    \* history: what the first successful resolveModel returned
    selection         \* the result of a call of selectModel being examined

\* GroupAnalysisService.analyzeGroupMessages (services/analysis.ts)
VARIABLES
    runsLaunched,       \* calls of analyzeGroupMessages so far
    phase,              \* of the latest call: "idle", "running", "reported", "failed"
    inputMessages,      \* its argument
    stats,              \* the result of calculateBasicStats(messages)
    usersArray,         \* its array users = Object.values(userStats), sorted in place
    tasks,              \* the three extraction calls; fetched is what the call's
                        \* own discovery returned, while it waits to resume
    discoveryRequests,  \* GET /models requests issued during the call
    report              \* the GroupAnalysisResult returned

\* calculateBasicStats (utils.ts) and the parsing of a completion
\* (services/llm.ts), each examined as a function of its input
VARIABLES
    aggregate,       \* the result of calculateBasicStats(inputMessages) examined
    completionBody,  \* data.choices[0].message.content of a completion
    extraction       \* the promise of the extraction call that received it

\* GroupAnalysisService.executeGroupAnalysis (services/analysis.ts)
VARIABLES
    allowedGroups,   \* config.allowedGroups
    command          \* the latest call: where it stands, its group, the replies
                     \* it sent, the history queries and analyses it started

cacheVars ==
    <<messageCache, now, eventCount, dbPending, db, cacheLog, justSwept, handlerErrors>>

llmVars ==
    <<configModel, availableModels, resolvedModel, firstResolved, selection,
      runsLaunched, phase, inputMessages, stats, usersArray, tasks,
      discoveryRequests, report>>

pureVars == <<aggregate, completionBody, extraction>>

commandVars == <<allowedGroups, command>>

vars == <<cacheVars, llmVars, pureVars, commandVars>>

(***************************************************************************)
(* MessageStorageService (services/storage.ts)                             *)
(***************************************************************************)
\* storage.ts:14 is 1000 and storage.ts:15 is one day in ms; both are scaled
\* down (entries, clock ticks) to keep the cache finite.
cacheSize == 2
cacheExpiration == 2

\* a sample configuration of the two ingestion filters
wordsFilter == { <<"s","p","a","m">> }
userFilter == { "bot" }

Platforms == { "qq" }
SenderIds == { "u1", "u2", "bot" }
Texts == { <<"h","i">>, <<"n","o","s","p","a","m","!">> }
ChannelTypes == { "group", "private" }

\* the message events the host can deliver
Events ==
    [ platform : Platforms, userId : SenderIds, text : Texts,
      channelType : ChannelTypes, timestamp : 0..MaxTime ]

\* shouldStoreMessage without the check of the channel type
shouldStoreMessage_AnyChannel(event) ==
    IF \E word \in wordsFilter : Includes(event.text, word) THEN FALSE
    ELSE IF event.userId \in userFilter THEN FALSE
    ELSE TRUE

shouldStoreMessage(event) ==
    IF \E word \in wordsFilter : Includes(event.text, word) THEN FALSE
    ELSE IF event.userId \in userFilter THEN FALSE
    ELSE IF event.channelType # "group" THEN FALSE
    ELSE TRUE

\* id is event.message.id, unique per event
buildStoredMessage(event, id) ==
    [ id |-> id, platform |-> event.platform, userId |-> event.userId,
      content |-> event.text, timestamp |-> event.timestamp ]

CacheKey(message) == <<message.platform, message.userId>>

CacheGet(cache, key) == IF key \in DOMAIN cache THEN cache[key] ELSE <<>>

\* addToCache without the capacity trim
addToCache_NoTrim(cache, message) ==
    LET cacheKey == CacheKey(message)
    IN  MapSet(cache, cacheKey, <<message>> \o CacheGet(cache, cacheKey))

\* addToCache with push() in place of unshift()
addToCache_Push(cache, message) ==
    LET cacheKey == CacheKey(message)
        pushed == CacheGet(cache, cacheKey) \o <<message>>
        messages == IF Len(pushed) > cacheSize
                    THEN Slice0(pushed, cacheSize)
                    ELSE pushed
    IN  MapSet(cache, cacheKey, messages)

addToCache(cache, message) ==
    LET cacheKey == CacheKey(message)
        unshifted == <<message>> \o CacheGet(cache, cacheKey)
        messages == IF Len(unshifted) > cacheSize
                    THEN Slice0(unshifted, cacheSize)
                    ELSE unshifted
    IN  MapSet(cache, cacheKey, messages)

\* the filter predicate with the operands of the subtraction exchanged
IsValid_Swapped(msg, t) == msg.timestamp - t < cacheExpiration

\* the filter predicate of cleanExpiredCache
IsValid(msg, t) == t - msg.timestamp < cacheExpiration

\* the loop body deleting the key whenever one of its messages has expired
CleanEntry_DropKey(cache, key, t) ==
    LET messages == cache[key]
        validMessages == SelectSeq(messages, LAMBDA msg : IsValid(msg, t))
    IN  IF Len(validMessages) # Len(messages) THEN MapDelete(cache, key)
        ELSE cache

\* the loop body without the deletion of a key left with no message
CleanEntry_KeepEmpty(cache, key, t) ==
    LET messages == cache[key]
        validMessages == SelectSeq(messages, LAMBDA msg : IsValid(msg, t))
    IN  IF Len(validMessages) # Len(messages)
        THEN MapSet(cache, key, validMessages)
        ELSE cache

\* the body of the loop of cleanExpiredCache, for one key
CleanEntry(cache, key, t) ==
    LET messages == cache[key]
        validMessages == SelectSeq(messages, LAMBDA msg : IsValid(msg, t))
    IN  IF Len(validMessages) = 0 THEN MapDelete(cache, key)
        ELSE IF Len(validMessages) # Len(messages)
             THEN MapSet(cache, key, validMessages)
             ELSE cache

RECURSIVE CleanLoop(_, _, _)
CleanLoop(cache, keys, t) ==
    IF keys = {} THEN cache
    ELSE LET key == CHOOSE k \in keys : TRUE
         IN  CleanLoop(CleanEntry(cache, key, t), keys \ {key}, t)

cleanExpiredCache(cache, t) == CleanLoop(cache, DOMAIN cache, t)

CacheInit ==
    /\ messageCache = << >>
    /\ now = 0
    /\ eventCount = 0
    /\ dbPending = {}
    /\ db = {}
    /\ cacheLog = <<>>
    /\ justSwept = FALSE
    /\ handlerErrors = 0

\* handleMessage writing to the database first: the cache insertion is left
\* for after the await
HandleMessage_PersistFirst(event) ==
    /\ eventCount < MaxEvents
    /\ eventCount' = eventCount + 1
    /\ IF shouldStoreMessage(event)
       THEN dbPending' = dbPending \cup {eventCount + 1}
       ELSE UNCHANGED dbPending
    /\ justSwept' = FALSE
    /\ UNCHANGED <<messageCache, cacheLog, now, db, handlerErrors>>
    /\ UNCHANGED <<llmVars, pureVars, commandVars>>

\* handleMessage up to its only suspension point, the await of db.insert
HandleMessage(event) ==
    /\ eventCount < MaxEvents
    /\ eventCount' = eventCount + 1
    /\ IF shouldStoreMessage(event)
       THEN LET storedMessage == buildStoredMessage(event, eventCount + 1)
            IN  /\ messageCache' = addToCache(messageCache, storedMessage)
                /\ dbPending' = dbPending \cup {storedMessage.id}
                /\ cacheLog' = Append(cacheLog, storedMessage)
       ELSE UNCHANGED <<messageCache, dbPending, cacheLog>>
    /\ justSwept' = FALSE
    /\ UNCHANGED <<now, db, handlerErrors>>
    /\ UNCHANGED <<llmVars, pureVars, commandVars>>

\* the promise of persistMessageWithEvent once db.insert has settled: a
\* rejection of the insert is caught and logged (lines 151-153)
persistMessageWithEvent(ok) ==
    LET inserted == IF ok THEN "fulfilled" ELSE "rejected"
    IN  IF inserted = "rejected" THEN "fulfilled" ELSE inserted

\* the promise of handleMessage once the awaited promise has settled: the
\* catch of lines 65-67 logs whatever was thrown
HandleMessageSettled(awaited) ==
    IF awaited = "rejected" THEN "fulfilled" ELSE awaited

\* db.insert settles, and with it persistMessageWithEvent and handleMessage
DbInsertSettle(id, ok) ==
    /\ id \in dbPending
    /\ dbPending' = dbPending \ {id}
    /\ db' = IF ok THEN db \cup {id} ELSE db
    /\ handlerErrors' =
          IF HandleMessageSettled(persistMessageWithEvent(ok)) = "rejected"
          THEN handlerErrors + 1 ELSE handlerErrors
    /\ justSwept' = FALSE
    /\ UNCHANGED <<messageCache, now, eventCount, cacheLog>>
    /\ UNCHANGED <<llmVars, pureVars, commandVars>>

\* the setInterval callback of start()
CleanExpiredCacheTimer ==
    /\ messageCache' = cleanExpiredCache(messageCache, now)
    /\ justSwept' = TRUE
    /\ UNCHANGED <<now, eventCount, dbPending, db, cacheLog, handlerErrors>>
    /\ UNCHANGED <<llmVars, pureVars, commandVars>>

Tick ==
    /\ now < MaxTime
    /\ now' = now + 1
    /\ justSwept' = FALSE
    /\ UNCHANGED <<messageCache, eventCount, dbPending, db, cacheLog, handlerErrors>>
    /\ UNCHANGED <<llmVars, pureVars, commandVars>>

(***************************************************************************)
(* LLMService (services/llm.ts): model resolution                          *)
(***************************************************************************)
\* the empty string, null and undefined: all falsy where the code tests them
None == <<>>

preferred ==
    << <<"g", "p", "t", "-", "4", "o">>,
       <<"g", "p", "t", "-", "4">>,
       <<"g", "p", "t", "-", "3", ".", "5">>,
       <<"q", "w", "e", "n">>,
       <<"g", "l", "m">>,
       <<"m", "o", "o", "n", "s", "h", "o", "t">>,
       <<"d", "e", "e", "p", "s", "e", "e", "k">>,
       <<"c", "l", "a", "u", "d", "e">> >>

\* Array.prototype.find((id) => id.includes(target)); None when nothing matches
FindIncluding(models, target) ==
    IF \E i \in 1..Len(models) : Includes(models[i], target)
    THEN models[CHOOSE i \in 1..Len(models) :
                    /\ Includes(models[i], target)
                    /\ \A j \in 1..(i - 1) : ~Includes(models[j], target)]
    ELSE None

\* the loops of selectModel exchanged: the first advertised identifier that
\* contains any marker
SelectFrom_ByPosition(models, p) ==
    LET hits == { i \in 1..Len(models) :
                    \E q \in 1..Len(preferred) : Includes(models[i], preferred[q]) }
    IN  IF hits = {} THEN models[1]
        ELSE models[CHOOSE i \in hits : \A j \in hits : i <= j]

\* the for-loop of selectModel from preferred[p] on
RECURSIVE SelectFrom(_, _)
SelectFrom(models, p) ==
    IF p > Len(preferred) THEN models[1]
    ELSE LET match == FindIncluding(models, preferred[p])
         IN  IF match # None THEN match ELSE SelectFrom(models, p + 1)

selectModel(model, models) ==
    IF model # None THEN model
    ELSE IF Len(models) = 0 THEN None
    ELSE SelectFrom(models, 1)

(***************************************************************************)
(* calculateBasicStats, findMostActivePeriod (utils.ts)                    *)
(*                                                                         *)
(* A StoredMessage is [userId, username, contentLength, timestamp,         *)
(* elements]; a timestamp counts hours, so getHours() is timestamp % 24;   *)
(* an element is [type, textLength].  avgChars is kept in tenths and the   *)
(* three ratios in hundredths, which is what toFixed(1) and toFixed(2)     *)
(* leave of them.                                                          *)
(***************************************************************************)
Hours == 0..23

Digits == { "0", "1", "2", "3", "4", "5", "6", "7", "8", "9" }

DigitValue(c) ==
    CASE c = "0" -> 0 [] c = "1" -> 1 [] c = "2" -> 2 [] c = "3" -> 3
      [] c = "4" -> 4 [] c = "5" -> 5 [] c = "6" -> 6 [] c = "7" -> 7
      [] c = "8" -> 8 [] c = "9" -> 9

\* a property key that is a canonical array index: own keys of an object are
\* enumerated with these first, in ascending numeric order
IsIndexKey(key) ==
    /\ Len(key) > 0
    /\ \A i \in 1..Len(key) : key[i] \in Digits
    /\ (Len(key) = 1 \/ key[1] # "0")

RECURSIVE IndexValue(_)
IndexValue(key) ==
    IF key = <<>> THEN 0
    ELSE 10 * IndexValue(SubSeq(key, 1, Len(key) - 1)) + DigitValue(key[Len(key)])

\* the index keys of a key sequence in ascending numeric order
RECURSIVE SortIndexKeys(_)
SortIndexKeys(keys) ==
    IF keys = {} THEN <<>>
    ELSE LET least == CHOOSE k \in keys :
                        \A other \in keys : IndexValue(k) <= IndexValue(other)
         IN  <<least>> \o SortIndexKeys(keys \ {least})

\* Object.keys of an object whose string keys were created in the order
\* order
ObjectKeys(order) ==
    SortIndexKeys({ order[i] : i \in { j \in 1..Len(order) : IsIndexKey(order[j]) } })
      \o SelectSeq(order, LAMBDA key : ~IsIndexKey(key))

getInitialUserStats(msg) ==
    [ userId |-> msg.userId, nickname |-> msg.username,
      messageCount |-> 0, charCount |-> 0, lastActive |-> 0,
      replyCount |-> 0, atCount |-> 0, emojiRatio |-> 0, emojiStats |-> 0,
      nightRatio |-> 0, avgChars |-> 0, replyRatio |-> 0, nightMessages |-> 0,
      activeHours |-> [ h \in Hours |-> 0 ] ]

\* the timestamp of the message at hand in place of the later one
Max_Latest(a, b) == b

Max(a, b) == IF a > b THEN a ELSE b

\* the loop over msg.elements: pureText.length and the three counters
RECURSIVE ScanElements(_, _)
ScanElements(elements, acc) ==
    IF elements = <<>> THEN acc
    ELSE LET el == Head(elements)
             next ==
                 IF el.type = "text"
                 THEN [acc EXCEPT !.pureText = @ + el.text]
                 ELSE IF el.type = "reply"
                 THEN [acc EXCEPT !.reply = @ + 1]
                 ELSE IF el.type = "at"
                 THEN [acc EXCEPT !.at = @ + 1]
                 ELSE IF el.type = "face" \/ el.type = "image"
                 THEN [acc EXCEPT !.emoji = @ + 1]
                 ELSE acc
         IN  ScanElements(Tail(elements), next)

\* the loop body counting hour 6 as night too
AccumulateMessage_NightTo6(acc, msg) ==
    LET userId == msg.userId
    IN  IF userId = <<>> THEN acc
        ELSE
          LET known == userId \in DOMAIN acc.byId
              stat0 == IF known THEN acc.byId[userId] ELSE getInitialUserStats(msg)
              hour == msg.timestamp % 24
              scan == ScanElements(msg.elements,
                                   [ pureText |-> 0, reply |-> 0, at |-> 0, emoji |-> 0 ])
              chars == IF scan.pureText # 0 THEN scan.pureText ELSE msg.contentLength
              stat == [ stat0 EXCEPT
                          !.messageCount = @ + 1,
                          !.lastActive = Max(@, msg.timestamp),
                          !.activeHours[hour] = @ + 1,
                          !.nightMessages = IF hour >= 0 /\ hour <= 6 THEN @ + 1 ELSE @,
                          !.replyCount = @ + scan.reply,
                          !.atCount = @ + scan.at,
                          !.emojiStats = @ + scan.emoji,
                          !.charCount = @ + chars ]
          IN  [ order |-> IF known THEN acc.order ELSE Append(acc.order, userId),
                byId |-> MapSet(acc.byId, userId, stat),
                totalChars |-> acc.totalChars + chars,
                totalEmojiCount |-> acc.totalEmojiCount + scan.emoji,
                allMessagesText |->
                    IF scan.pureText # 0
                    THEN Append(acc.allMessagesText,
                                [ username |-> msg.username, userId |-> msg.userId ])
                    ELSE acc.allMessagesText ]

\* the body of the first loop of calculateBasicStats, for one message
AccumulateMessage(acc, msg) ==
    LET userId == msg.userId
    IN  IF userId = <<>> THEN acc
        ELSE
          LET known == userId \in DOMAIN acc.byId
              stat0 == IF known THEN acc.byId[userId] ELSE getInitialUserStats(msg)
              hour == msg.timestamp % 24
              scan == ScanElements(msg.elements,
                                   [ pureText |-> 0, reply |-> 0, at |-> 0, emoji |-> 0 ])
              chars == IF scan.pureText # 0 THEN scan.pureText ELSE msg.contentLength
              stat == [ stat0 EXCEPT
                          !.messageCount = @ + 1,
                          !.lastActive = Max(@, msg.timestamp),
                          !.activeHours[hour] = @ + 1,
                          !.nightMessages = IF hour >= 0 /\ hour < 6 THEN @ + 1 ELSE @,
                          !.replyCount = @ + scan.reply,
                          !.atCount = @ + scan.at,
                          !.emojiStats = @ + scan.emoji,
                          !.charCount = @ + chars ]
          IN  [ order |-> IF known THEN acc.order ELSE Append(acc.order, userId),
                byId |-> MapSet(acc.byId, userId, stat),
                totalChars |-> acc.totalChars + chars,
                totalEmojiCount |-> acc.totalEmojiCount + scan.emoji,
                allMessagesText |->
                    IF scan.pureText # 0
                    THEN Append(acc.allMessagesText,
                                [ username |-> msg.username, userId |-> msg.userId ])
                    ELSE acc.allMessagesText ]

RECURSIVE AccumulateAll(_, _)
AccumulateAll(acc, messages) ==
    IF messages = <<>> THEN acc
    ELSE AccumulateAll(AccumulateMessage(acc, Head(messages)), Tail(messages))

\* the quotient cut off after the last digit kept
RoundDiv_Floor(a, b) == a \div b

\* parseFloat((a / b).toFixed(digits)) scaled by 10^digits, a >= 0, b > 0
RoundDiv(a, b) == (2 * a + b) \div (2 * b)

\* the second loop with the user's own emoji count in emojiRatio
FinishRatios_OwnEmoji(stat, totalEmojiCount) ==
    [ stat EXCEPT
        !.avgChars = IF stat.messageCount # 0
                     THEN RoundDiv(10 * stat.charCount, stat.messageCount) ELSE 0,
        !.nightRatio = IF stat.messageCount # 0
                       THEN RoundDiv(100 * stat.nightMessages, stat.messageCount) ELSE 0,
        !.replyRatio = IF stat.messageCount # 0
                       THEN RoundDiv(100 * stat.replyCount, stat.messageCount) ELSE 0,
        !.emojiRatio = IF stat.messageCount # 0
                       THEN RoundDiv(100 * stat.emojiStats, stat.messageCount) ELSE 0 ]

\* the body of the second loop of calculateBasicStats, for one user
FinishRatios(stat, totalEmojiCount) ==
    [ stat EXCEPT
        !.avgChars = IF stat.messageCount # 0
                     THEN RoundDiv(10 * stat.charCount, stat.messageCount) ELSE 0,
        !.nightRatio = IF stat.messageCount # 0
                       THEN RoundDiv(100 * stat.nightMessages, stat.messageCount) ELSE 0,
        !.replyRatio = IF stat.messageCount # 0
                       THEN RoundDiv(100 * stat.replyCount, stat.messageCount) ELSE 0,
        !.emojiRatio = IF stat.messageCount # 0
                       THEN RoundDiv(100 * totalEmojiCount, stat.messageCount) ELSE 0 ]

\* the counters before the first message
EmptyCounters ==
    [ order |-> <<>>, byId |-> << >>, totalChars |-> 0,
      totalEmojiCount |-> 0, allMessagesText |-> <<>> ]

\* the first loop of calculateBasicStats
MessageLoop(messages) == AccumulateAll(EmptyCounters, messages)

\* the second loop of calculateBasicStats and its return value; userStats is
\* an object: order is the creation order of its keys
RatioLoop(acc) ==
    [ userStats |->
          [ order |-> acc.order,
            byId |-> [ id \in DOMAIN acc.byId |->
                         FinishRatios(acc.byId[id], acc.totalEmojiCount) ] ],
      totalChars |-> acc.totalChars,
      totalEmojiCount |-> acc.totalEmojiCount,
      allMessagesText |-> acc.allMessagesText ]

\* calculateBasicStats returning before its second loop has run
calculateBasicStats_Unfinished(messages) ==
    LET acc == MessageLoop(messages)
    IN  [ userStats |-> [ order |-> acc.order, byId |-> acc.byId ],
          totalChars |-> acc.totalChars,
          totalEmojiCount |-> acc.totalEmojiCount,
          allMessagesText |-> acc.allMessagesText ]

calculateBasicStats(messages) == RatioLoop(MessageLoop(messages))

\* Object.values(userStats)
ObjectValues(userStats) ==
    LET keys == ObjectKeys(userStats.order)
    IN  [ i \in 1..Len(keys) |-> userStats.byId[keys[i]] ]

\* Array.prototype.sort((a, b) => b.messageCount - a.messageCount): a stable
\* sort, here by insertion
RECURSIVE InsertByCount(_, _)
InsertByCount(sorted, user) ==
    IF sorted = <<>> THEN <<user>>
    ELSE IF Head(sorted).messageCount >= user.messageCount
         THEN <<Head(sorted)>> \o InsertByCount(Tail(sorted), user)
         ELSE <<user>> \o sorted

RECURSIVE SortByMessageCount(_)
SortByMessageCount(users) ==
    IF users = <<>> THEN <<>>
    ELSE InsertByCount(SortByMessageCount(SubSeq(users, 1, Len(users) - 1)),
                       users[Len(users)])

\* the loop of analyzeGroupMessages that sums the users' activeHours; the
\* result has no key at all when there is no user
SumActiveHours(users) ==
    IF users = <<>> THEN << >>
    ELSE [ h \in Hours |->
             LET RECURSIVE Sum(_)
                 Sum(i) == IF i = 0 THEN 0 ELSE Sum(i - 1) + users[i].activeHours[h]
             IN  Sum(Len(users)) ]

\* the loop with a comparison that also replaces on an equal count
RECURSIVE ScanHours_OnEqual(_, _, _, _)
ScanHours_OnEqual(activeHours, h, maxHour, maxCount) ==
    IF h > 23 THEN maxHour
    ELSE IF h \in DOMAIN activeHours /\ activeHours[h] >= maxCount
         THEN ScanHours_OnEqual(activeHours, h + 1, h, activeHours[h])
         ELSE ScanHours_OnEqual(activeHours, h + 1, maxHour, maxCount)

\* the loop of findMostActivePeriod from hour h on
RECURSIVE ScanHours(_, _, _, _)
ScanHours(activeHours, h, maxHour, maxCount) ==
    IF h > 23 THEN maxHour
    ELSE IF h \in DOMAIN activeHours /\ activeHours[h] > maxCount
         THEN ScanHours(activeHours, h + 1, h, activeHours[h])
         ELSE ScanHours(activeHours, h + 1, maxHour, maxCount)

\* the period "h:00-(h+1):00" as the pair <<h, h + 1>>
findMostActivePeriod(activeHours) ==
    LET maxHour == ScanHours(activeHours, 0, 0, 0)
    IN  <<maxHour, maxHour + 1>>

(***************************************************************************)
(* LLMService: discovery, completion and the parsing of callLLM            *)
(***************************************************************************)
\* most records a fenced block decodes to
MaxItems == 2

\* what a decoded block can be; an array keeps its records
ListOf(items) == [ type |-> "list", items |-> items ]
EmptyList == ListOf(<<>>)
Scalar == [ type |-> "scalar", items |-> <<>> ]
Mapping == [ type |-> "mapping", items |-> <<>> ]
NoValue == [ type |-> "none", items |-> <<>> ]

\* a promise: pending, fulfilled with a value, or rejected with an error
Pending == [ state |-> "pending", value |-> NoValue, error |-> "none" ]
Fulfilled(value) == [ state |-> "fulfilled", value |-> value, error |-> "none" ]
Rejected(error) == [ state |-> "rejected", value |-> NoValue, error |-> error ]

\* The answer to GET /models: ok is response.ok, isArray is
\* Array.isArray(data?.data), an item is [isString, id].
StringItem(id) == [ isString |-> TRUE, id |-> id ]
NonStringItem == [ isString |-> FALSE, id |-> None ]
Foo7b == <<"f", "o", "o", "-", "7", "b">>
Qwen14b == <<"q", "w", "e", "n", "-", "1", "4", "b">>

DiscoveryResponses ==
    { [ ok |-> FALSE, isArray |-> FALSE, items |-> <<>> ],
      [ ok |-> TRUE, isArray |-> FALSE, items |-> <<>> ],
      [ ok |-> TRUE, isArray |-> TRUE, items |-> <<>> ],
      [ ok |-> TRUE, isArray |-> TRUE, items |-> <<NonStringItem>> ],
      [ ok |-> TRUE, isArray |-> TRUE, items |-> <<StringItem(Foo7b)>> ],
      [ ok |-> TRUE, isArray |-> TRUE,
        items |-> <<StringItem(Foo7b), NonStringItem, StringItem(Qwen14b)>> ] }

\* the answers without a second advertised list
PlainDiscoveryResponses ==
    { r \in DiscoveryResponses : Len(r.items) <= 1 /\ (r.ok => r.isArray) }

\* data.data.map((item) => item?.id).filter((id) => typeof id === 'string')
AdvertisedIds(response) ==
    IF response.isArray
    THEN LET strings == SelectSeq(response.items, LAMBDA item : item.isString)
         IN  [ i \in 1..Len(strings) |-> strings[i].id ]
    ELSE <<>>

\* The content of a completion is a sequence of tokens: "ws" is white space,
\* "prose" any other text outside a block, "fence:yaml" and "fence:yml" are
\* the opening fences of a block and "fence" the three backquotes that close one; inside a block "item" is one record of
\* a YAML sequence, "blank" a run of empty lines, "key" an entry of a YAML
\* mapping, "scalar" a plain scalar and "bad" text that is not YAML.
OpenFences == { "fence:yaml", "fence:yml" }
CloseFences == { "fence", "fence:yaml", "fence:yml" }

RECURSIVE Items(_)
Items(n) == IF n = 0 THEN <<>> ELSE Append(Items(n - 1), "item")

FencedYaml(doc) == <<"fence:yaml">> \o doc \o <<"fence">>

CompletionContents ==
    { <<>>, <<"ws">>, <<"prose">>,
      <<"prose", "fence:yaml", "item">>,
      <<"ws", "prose", "fence:yml", "ws", "item", "ws", "fence", "prose">>,
      FencedYaml(<<"scalar">>), FencedYaml(<<"key", "key">>),
      FencedYaml(<<"bad">>), FencedYaml(<<"item", "blank", "item">>) }
      \cup { FencedYaml(Items(n)) : n \in 0..MaxItems }

CompletionResponses ==
    { [ ok |-> FALSE, content |-> <<>> ] }
      \cup { [ ok |-> TRUE, content |-> c ] : c \in CompletionContents }

\* a failure and an answer with one record
PlainCompletionResponses ==
    { [ ok |-> FALSE, content |-> <<>> ],
      [ ok |-> TRUE, content |-> FencedYaml(Items(1)) ] }

\* String.prototype.trim
RECURSIVE TrimStart(_)
TrimStart(text) ==
    IF text # <<>> /\ Head(text) = "ws" THEN TrimStart(Tail(text)) ELSE text

RECURSIVE TrimEnd(_)
TrimEnd(text) ==
    IF text # <<>> /\ text[Len(text)] = "ws"
    THEN TrimEnd(SubSeq(text, 1, Len(text) - 1))
    ELSE text

Trim(text) == TrimEnd(TrimStart(text))

\* rawContent.match(...) with the fenced-block pattern of callLLM: the
\* captured group of the leftmost match, or "no match".  The pattern ends at
\* the first three backquotes, which an opening fence also starts with.
NoMatch == <<"no match">>

YamlMatch(rawContent) ==
    LET opens == { i \in 1..Len(rawContent) :
                     /\ rawContent[i] \in OpenFences
                     /\ \E j \in (i + 1)..Len(rawContent) : rawContent[j] \in CloseFences }
    IN  IF opens = {} THEN NoMatch
        ELSE LET open == CHOOSE i \in opens : \A other \in opens : i <= other
                 close == CHOOSE j \in (open + 1)..Len(rawContent) :
                            /\ rawContent[j] \in CloseFences
                            /\ \A k \in (open + 1)..(j - 1) : rawContent[k] \notin CloseFences
             IN  Trim(SubSeq(rawContent, open + 1, close - 1))

\* cleanYamlContent: the empty lines between a record and the next record
\* are removed
RECURSIVE cleanYamlContent(_)
cleanYamlContent(yamlContent) ==
    IF Len(yamlContent) < 3 THEN yamlContent
    ELSE IF yamlContent[1] = "item" /\ yamlContent[2] = "blank" /\ yamlContent[3] = "item"
         THEN <<"item">> \o cleanYamlContent(SubSeq(yamlContent, 3, Len(yamlContent)))
         ELSE <<Head(yamlContent)>> \o cleanYamlContent(Tail(yamlContent))

\* yamlLoad: a promise-like result, rejected when js-yaml throws; empty lines
\* and white space mean nothing to YAML, an empty document loads as undefined
yamlLoad(text) ==
    LET doc == SelectSeq(text, LAMBDA tok : tok \notin { "blank", "ws" })
    IN  IF doc = <<>> THEN Fulfilled(NoValue)
        ELSE IF \A i \in 1..Len(doc) : doc[i] = "item" THEN Fulfilled(ListOf(doc))
        ELSE IF \A i \in 1..Len(doc) : doc[i] = "key" THEN Fulfilled(Mapping)
        ELSE IF doc = <<"scalar">> THEN Fulfilled(Scalar)
        ELSE Rejected("DecodeError")

\* callLLM without the return for an empty rawContent
ParseCompletion_NoShortCircuit(rawContent) ==
    LET yamlMatch == YamlMatch(rawContent)
    IN  IF yamlMatch = NoMatch THEN Rejected("MissingStructuredBlock")
        ELSE yamlLoad(cleanYamlContent(yamlMatch))

\* callLLM with a catch block that returns [] in place of throwing err again
ParseCompletion_CatchDecode(rawContent) ==
    IF rawContent = <<>> THEN Fulfilled(EmptyList)
    ELSE LET yamlMatch == YamlMatch(rawContent)
             data == yamlLoad(cleanYamlContent(yamlMatch))
         IN  IF yamlMatch = NoMatch THEN Rejected("MissingStructuredBlock")
             ELSE IF data.state = "rejected" THEN Fulfilled(EmptyList)
             ELSE data

\* callLLM after requestChatCompletion has returned rawContent
ParseCompletion(rawContent) ==
    IF rawContent = <<>> THEN Fulfilled(EmptyList)
    ELSE LET yamlMatch == YamlMatch(rawContent)
         IN  IF yamlMatch = NoMatch THEN Rejected("MissingStructuredBlock")
             ELSE yamlLoad(cleanYamlContent(yamlMatch))

\* .then((data) => data ?? []) of summarizeTopics, analyzeUserTitles and
\* analyzeGoldenQuotes
DefaultToEmpty(promise) ==
    IF promise.state = "fulfilled" /\ promise.value = NoValue
    THEN Fulfilled(EmptyList)
    ELSE promise

\* requestChatCompletion from the answer of the endpoint on, then callLLM and
\* the .then of its caller
CompletionOutcome(response) ==
    IF ~response.ok THEN Rejected("TransportError")
    ELSE DefaultToEmpty(ParseCompletion(Trim(response.content)))

(***************************************************************************)
(* GroupAnalysisService.analyzeGroupMessages (services/analysis.ts) and    *)
(* the three extraction calls it launches on its LLMService                *)
(***************************************************************************)
\* analyses requested, one after the other
MaxRuns == 2

\* sample values of config.analysis, scaled to the size of the inputs
maxUsersInReport == 1
maxTopics == 1
maxUserTitles == 1
maxGoldenQuotes == 1

\* in the order of the array handed to Promise.all
Kinds == { "topics", "userTitles", "goldenQuotes" }

ConfiguredModel == <<"g", "p", "t", "-", "x">>

IdleTask ==
    [ pc |-> "idle", promise |-> Pending, model |-> None, fetched |-> "nothing",
      prompt |-> [ messages |-> <<>>, limit |-> 0, users |-> <<>> ] ]

\* requestChatCompletion once resolveModel has returned model: the completion
\* request is sent with it
Requesting(task, model) ==
    [ task EXCEPT !.pc = "completing", !.model = model, !.fetched = "nothing" ]

\* the call ends with its promise rejected
Failing(task, error) ==
    [ task EXCEPT !.pc = "settled", !.promise = Rejected(error), !.fetched = "nothing" ]

\* this.resolvedModel = model
Memoize(svc, model) ==
    [ svc EXCEPT !.resolvedModel = model,
                 !.firstResolved = IF @ = None THEN model ELSE @ ]

\* resolveModel from line 56 on: selectModel, then throw or memoize
FinishResolve(svc, task) ==
    LET selected == selectModel(configModel, svc.availableModels)
    IN  IF selected = None
        THEN [ svc |-> svc, task |-> Failing(task, "NoUsableModel"), issued |-> 0 ]
        ELSE [ svc |-> Memoize(svc, selected), task |-> Requesting(task, selected),
               issued |-> 0 ]

\* resolveModel without the branch for a configured model
StartResolve_NoConfigBranch(svc, task) ==
    IF svc.resolvedModel # None
    THEN [ svc |-> svc, task |-> Requesting(task, svc.resolvedModel), issued |-> 0 ]
    ELSE IF Len(svc.availableModels) = 0
    THEN [ svc |-> svc,
           task |-> [ task EXCEPT !.pc = "discovering" ],
           issued |-> 1 ]
    ELSE FinishResolve(svc, task)

\* requestChatCompletion and resolveModel up to the first point where they
\* wait for the network: svc is [resolvedModel, availableModels, firstResolved]
StartResolve(svc, task) ==
    IF svc.resolvedModel # None
    THEN [ svc |-> svc, task |-> Requesting(task, svc.resolvedModel), issued |-> 0 ]
    ELSE IF configModel # None
    THEN [ svc |-> Memoize(svc, configModel), task |-> Requesting(task, configModel),
           issued |-> 0 ]
    ELSE IF Len(svc.availableModels) = 0
    THEN [ svc |-> svc,
           task |-> [ task EXCEPT !.pc = "discovering" ],
           issued |-> 1 ]
    ELSE FinishResolve(svc, task)

\* the line of the {users} placeholder for one user
UserSummary(user) ==
    [ nickname |-> user.nickname, userId |-> user.userId,
      messageCount |-> user.messageCount, avgChars |-> user.avgChars,
      emojiRatio |-> user.emojiRatio, nightRatio |-> user.nightRatio,
      replyRatio |-> user.replyRatio ]

\* the prompts of summarizeTopics, analyzeUserTitles and analyzeGoldenQuotes
TopicPrompt(messagesText) ==
    [ messages |-> messagesText, limit |-> maxTopics, users |-> <<>> ]
UserTitlesPrompt(sortedUsers) ==
    LET top == Slice0(sortedUsers, maxUserTitles)
    IN  [ messages |-> <<>>, limit |-> 0,
          users |-> [ i \in 1..Len(top) |-> UserSummary(top[i]) ] ]
GoldenQuotesPrompt(messagesText) ==
    [ messages |-> messagesText, limit |-> maxGoldenQuotes, users |-> <<>> ]

\* .catch((error) => { ...; return []; }) at the call site without the return
\* of a value: the error is thrown again
CatchExtraction_Rethrow(promise) == promise

\* .catch((error) => { ...; return []; }) at the call site
CatchExtraction(promise) ==
    IF promise.state = "rejected" THEN Fulfilled(EmptyList) ELSE promise

NoReport == [ produced |-> FALSE ]

\* analyzeGroupMessages from line 143 on, with totalParticipants taken from
\* the truncated list
AssembleReport_TruncatedCount(msgs, st, us, results) ==
    LET allActiveHours == SumActiveHours(us)
        sortedUserStats == Slice0(SortByMessageCount(us), maxUsersInReport)
    IN  [ produced |-> TRUE,
          totalMessages |-> Len(msgs),
          totalChars |-> st.totalChars,
          totalParticipants |-> Len(sortedUserStats),
          emojiCount |-> st.totalEmojiCount,
          mostActiveUser |-> Slice0(sortedUserStats, 1),
          mostActivePeriod |-> findMostActivePeriod(allActiveHours),
          userStats |-> sortedUserStats,
          topics |-> results["topics"].value,
          userTitles |-> results["userTitles"].value,
          goldenQuotes |-> results["goldenQuotes"].value,
          activeHoursData |-> allActiveHours ]

\* analyzeGroupMessages from line 143 on, without the slice of the sorted
\* users
AssembleReport_NoSlice(msgs, st, us, results) ==
    LET allActiveHours == SumActiveHours(us)
        sortedUserStats == SortByMessageCount(us)
    IN  [ produced |-> TRUE,
          totalMessages |-> Len(msgs),
          totalChars |-> st.totalChars,
          totalParticipants |-> Len(us),
          emojiCount |-> st.totalEmojiCount,
          mostActiveUser |-> Slice0(sortedUserStats, 1),
          mostActivePeriod |-> findMostActivePeriod(allActiveHours),
          userStats |-> sortedUserStats,
          topics |-> results["topics"].value,
          userTitles |-> results["userTitles"].value,
          goldenQuotes |-> results["goldenQuotes"].value,
          activeHoursData |-> allActiveHours ]

\* analyzeGroupMessages from line 143 on; mostActiveUser is a sequence of at
\* most one user, empty for null
AssembleReport(msgs, st, us, results) ==
    LET allActiveHours == SumActiveHours(us)
        sortedUserStats == Slice0(SortByMessageCount(us), maxUsersInReport)
    IN  [ produced |-> TRUE,
          totalMessages |-> Len(msgs),
          totalChars |-> st.totalChars,
          totalParticipants |-> Len(us),
          emojiCount |-> st.totalEmojiCount,
          mostActiveUser |-> Slice0(sortedUserStats, 1),
          mostActivePeriod |-> findMostActivePeriod(allActiveHours),
          userStats |-> sortedUserStats,
          topics |-> results["topics"].value,
          userTitles |-> results["userTitles"].value,
          goldenQuotes |-> results["goldenQuotes"].value,
          activeHoursData |-> allActiveHours ]

Service ==
    [ resolvedModel |-> resolvedModel, availableModels |-> availableModels,
      firstResolved |-> firstResolved ]

\* analyzeGroupMessages up to the await of Promise.all: the aggregation, then
\* the three calls, each run up to the first point where it waits
analyzeGroupMessages(msgs) ==
    /\ phase # "running"
    /\ runsLaunched < MaxRuns
    /\ LET basic == calculateBasicStats(msgs)
           messagesText == basic.allMessagesText
           values == ObjectValues(basic.userStats)
           topics == StartResolve(Service,
                         [ IdleTask EXCEPT !.prompt = TopicPrompt(messagesText) ])
           sorted == SortByMessageCount(values)
           userTitles == StartResolve(topics.svc,
                         [ IdleTask EXCEPT !.prompt = UserTitlesPrompt(sorted) ])
           goldenQuotes == StartResolve(userTitles.svc,
                         [ IdleTask EXCEPT !.prompt = GoldenQuotesPrompt(messagesText) ])
       IN  /\ inputMessages' = msgs
           /\ stats' = basic
           /\ usersArray' = sorted
           /\ tasks' = [ k \in Kinds |->
                           IF k = "topics" THEN topics.task
                           ELSE IF k = "userTitles" THEN userTitles.task
                           ELSE goldenQuotes.task ]
           /\ discoveryRequests' = topics.issued + userTitles.issued + goldenQuotes.issued
           /\ resolvedModel' = goldenQuotes.svc.resolvedModel
           /\ availableModels' = goldenQuotes.svc.availableModels
           /\ firstResolved' = goldenQuotes.svc.firstResolved
    /\ runsLaunched' = runsLaunched + 1
    /\ phase' = "running"
    /\ report' = NoReport
    /\ UNCHANGED <<configModel, selection>>

\* a call of analyzeGroupMessages on its own
Launch(msgs) ==
    /\ analyzeGroupMessages(msgs)
    /\ UNCHANGED <<cacheVars, pureVars, commandVars>>

\* fetchAvailableModels from the answer of the endpoint on
DiscoverySettle(k, response) ==
    /\ tasks[k].pc = "discovering"
    /\ IF ~response.ok
       THEN /\ tasks' = [ tasks EXCEPT ![k] = Failing(@, "ModelListUnavailable") ]
            /\ UNCHANGED availableModels
       ELSE LET ids == AdvertisedIds(response)
            IN  /\ availableModels' = ids
                /\ tasks' = [ tasks EXCEPT ![k] =
                                [ @ EXCEPT !.pc = "fetched",
                                           !.fetched = IF ids = <<>> THEN "unusable"
                                                       ELSE "usable" ] ]
    /\ UNCHANGED <<configModel, resolvedModel, selection, runsLaunched, phase,
                   inputMessages, stats, usersArray, discoveryRequests, report, firstResolved>>
    /\ UNCHANGED <<cacheVars, pureVars, commandVars>>

\* resolveModel resumes after await this.fetchAvailableModels()
ResolveContinue(k) ==
    /\ tasks[k].pc = "fetched"
    /\ LET result == FinishResolve(Service, tasks[k])
       IN  /\ tasks' = [ tasks EXCEPT ![k] = result.task ]
           /\ resolvedModel' = result.svc.resolvedModel
           /\ firstResolved' = result.svc.firstResolved
    /\ UNCHANGED <<configModel, availableModels, selection, runsLaunched, phase,
                   inputMessages, stats, usersArray, discoveryRequests, report>>
    /\ UNCHANGED <<cacheVars, pureVars, commandVars>>

\* the completion request of call k is answered
CompletionSettle(k, response) ==
    /\ tasks[k].pc = "completing"
    /\ tasks' = [ tasks EXCEPT ![k] =
                    [ @ EXCEPT !.pc = "settled", !.promise = CompletionOutcome(response) ] ]
    /\ UNCHANGED <<configModel, availableModels, resolvedModel, selection,
                   runsLaunched, phase, inputMessages, stats, usersArray, discoveryRequests,
                   report, firstResolved>>
    /\ UNCHANGED <<cacheVars, pureVars, commandVars>>

\* a join that goes on as soon as one of the three promises has settled,
\* with the empty list for a call still in flight
JoinAll_FirstSettled ==
    /\ phase = "running"
    /\ \E k \in Kinds : tasks[k].promise.state # "pending"
    /\ LET caught == [ k \in Kinds |->
                         IF tasks[k].promise.state = "pending" THEN Fulfilled(EmptyList)
                         ELSE CatchExtraction(tasks[k].promise) ]
       IN  /\ phase' = "reported"
           /\ report' = AssembleReport(inputMessages, stats, usersArray, caught)
           /\ usersArray' = SortByMessageCount(usersArray)
    /\ UNCHANGED <<configModel, availableModels, resolvedModel, selection,
                   runsLaunched, inputMessages, stats, tasks, discoveryRequests,
                   firstResolved>>
    /\ UNCHANGED <<cacheVars, pureVars, commandVars>>

\* a join that goes on only once all three calls have returned a value, no
\* error being caught
JoinAll_OnlyFulfilled ==
    /\ phase = "running"
    /\ \A k \in Kinds : tasks[k].promise.state = "fulfilled"
    /\ phase' = "reported"
    /\ report' = AssembleReport(inputMessages, stats, usersArray,
                                [ k \in Kinds |-> tasks[k].promise ])
    /\ usersArray' = SortByMessageCount(usersArray)
    /\ UNCHANGED <<configModel, availableModels, resolvedModel, selection,
                   runsLaunched, inputMessages, stats, tasks, discoveryRequests,
                   firstResolved>>
    /\ UNCHANGED <<cacheVars, pureVars, commandVars>>

\* Promise.all settles: rejected as soon as one of the three promises handed
\* to it is, fulfilled once all are; then the rest of analyzeGroupMessages
JoinAll ==
    /\ phase = "running"
    /\ LET caught == [ k \in Kinds |-> CatchExtraction(tasks[k].promise) ]
       IN  /\ \/ \E k \in Kinds : caught[k].state = "rejected"
              \/ \A k \in Kinds : caught[k].state = "fulfilled"
           /\ IF \E k \in Kinds : caught[k].state = "rejected"
              THEN /\ phase' = "failed"
                   /\ report' = NoReport
                   /\ UNCHANGED usersArray
              ELSE /\ phase' = "reported"
                   /\ report' = AssembleReport(inputMessages, stats, usersArray, caught)
                   /\ usersArray' = SortByMessageCount(usersArray)
    /\ UNCHANGED <<configModel, availableModels, resolvedModel, selection,
                   runsLaunched, inputMessages, stats, tasks, discoveryRequests,
                   firstResolved>>
    /\ UNCHANGED <<cacheVars, pureVars, commandVars>>

\* longest message history analysed
MaxMessages == 2

\* the messages a history is made of: an index-like user id created after a
\* larger one, a message without elements, one with every kind of element
MessagePool ==
    { [ userId |-> <<"1", "0">>, username |-> "ann", contentLength |-> 5, timestamp |-> 2,
        elements |-> << [ type |-> "text", text |-> 3 ], [ type |-> "face", text |-> 0 ] >> ],
      [ userId |-> <<"7">>, username |-> "bob", contentLength |-> 4, timestamp |-> 23,
        elements |-> <<>> ],
      [ userId |-> <<"c", "y">>, username |-> "cy", contentLength |-> 0, timestamp |-> 29,
        elements |-> << [ type |-> "reply", text |-> 0 ], [ type |-> "at", text |-> 0 ],
                        [ type |-> "image", text |-> 0 ] >> ] }

AnalysisInputs == SeqsUpTo(MessagePool, MaxMessages)

\* the input of the analyses of Spec
SampleUser == <<"7">>
SampleMessages ==
    << [ userId |-> SampleUser, username |-> "ann", contentLength |-> 2,
         timestamp |-> 2, elements |-> << [ type |-> "text", text |-> 3 ] >> ] >>

(***************************************************************************)
(* selectModel as a function of the advertised list.                       *)
(***************************************************************************)
\* longest advertised list examined
MaxAdvertised == 3

ModelPool ==
    { <<"f", "o", "o", "-", "7", "b">>,
      <<"q", "w", "e", "n", "-", "1", "4", "b">>,
      <<"g", "p", "t", "-", "4">>,
      <<"g", "p", "t", "-", "4", "o">>,
      <<"g", "l", "m", "-", "q", "w", "e", "n">> }

NoSelection == [ applied |-> FALSE, value |-> None ]

\* selectModel applied to the advertised list
ApplySelectModel ==
    /\ ~selection.applied
    /\ selection' = [ applied |-> TRUE,
                      value |-> selectModel(configModel, availableModels) ]
    /\ UNCHANGED <<configModel, availableModels, resolvedModel, firstResolved,
                   runsLaunched, phase, inputMessages, stats, usersArray, tasks,
                   discoveryRequests, report>>
    /\ UNCHANGED <<cacheVars, pureVars, commandVars>>

(***************************************************************************)
(* The extraction call as a function of the completion body.               *)
(***************************************************************************)
\* longest text around a fenced block, and longest document inside one
MaxPad == 1
MaxDoc == 2

\* text before and after a block
Pads == SeqsUpTo({ "ws", "prose" }, MaxPad)

\* what stands between the fences: records with empty lines between them, a
\* mapping, a plain scalar, text that is not YAML
Documents ==
    SeqsUpTo({ "item", "blank", "ws" }, MaxDoc)
      \cup SeqsUpTo({ "key", "ws" }, MaxDoc)
      \cup { <<"scalar">>, <<"bad">>, <<"ws", "bad">>, <<"item", "bad">> }

\* no block, a block, a block that is never closed
Blocks ==
    { <<>> } \cup
    { <<open>> \o doc \o close :
        open \in OpenFences, doc \in Documents, close \in { <<>>, <<"fence">> } }

CompletionBodies ==
    { pre \o block \o post : pre \in Pads, block \in Blocks, post \in Pads }

NoExtraction == [ applied |-> FALSE, promise |-> Pending ]

\* an extraction call from the answer to its completion request on
ApplyExtraction ==
    /\ ~extraction.applied
    /\ extraction' =
          [ applied |-> TRUE,
            promise |-> CompletionOutcome([ ok |-> TRUE, content |-> completionBody ]) ]
    /\ UNCHANGED <<aggregate, completionBody>>
    /\ UNCHANGED <<cacheVars, llmVars, commandVars>>

\* counters is what the first loop leaves, value what the function returns
NoAggregate ==
    [ applied |-> FALSE, counters |-> EmptyCounters, value |-> calculateBasicStats(<<>>) ]

\* The second loop as a function of the counters of two users: a user with
\* one, two or three messages or with BusyUserMessages, each with up to
\* MaxEmoji faces or images, all sent at noon without text elements.
BusyUserMessages == 201
MaxEmoji == 1

RatioCounts == { 1, 2, 3, BusyUserMessages }

CountedUser(id, name, count, emoji) ==
    [ getInitialUserStats([ userId |-> id, username |-> name ]) EXCEPT
        !.messageCount = count, !.charCount = 2 * count, !.lastActive = 36,
        !.emojiStats = emoji, !.activeHours[12] = count ]

RatioInputs ==
    { [ order |-> << <<"1", "0">>, <<"7">> >>,
        byId |-> (<<"1", "0">> :> CountedUser(<<"1", "0">>, "ann", n1, e1))
                   @@ (<<"7">> :> CountedUser(<<"7">>, "bob", n2, e2)),
        totalChars |-> 2 * (n1 + n2),
        totalEmojiCount |-> e1 + e2,
        allMessagesText |-> <<>> ] :
      n1 \in RatioCounts, n2 \in RatioCounts, e1 \in 0..MaxEmoji, e2 \in 0..MaxEmoji }

\* the second loop of calculateBasicStats applied to the counters
ApplyRatioLoop ==
    /\ ~aggregate.applied
    /\ aggregate' = [ aggregate EXCEPT !.applied = TRUE,
                                       !.value = RatioLoop(aggregate.counters) ]
    /\ UNCHANGED <<completionBody, extraction>>
    /\ UNCHANGED <<cacheVars, llmVars, commandVars>>


\* longest of the short histories aggregated
MaxStatMessages == 3

\* Two users over two days: text with a face at night, a message without
\* elements, a reply with text, an image alone whose content is not empty,
\* a mention under a new nickname.
StatPool ==
    { [ userId |-> <<"1", "0">>, username |-> "ann", contentLength |-> 5, timestamp |-> 2,
        elements |-> << [ type |-> "text", text |-> 3 ], [ type |-> "face", text |-> 0 ] >> ],
      [ userId |-> <<"1", "0">>, username |-> "ann", contentLength |-> 4, timestamp |-> 30,
        elements |-> <<>> ],
      [ userId |-> <<"7">>, username |-> "bob", contentLength |-> 2, timestamp |-> 23,
        elements |-> << [ type |-> "reply", text |-> 0 ], [ type |-> "text", text |-> 2 ] >> ],
      [ userId |-> <<"7">>, username |-> "bob", contentLength |-> 3, timestamp |-> 5,
        elements |-> << [ type |-> "image", text |-> 0 ] >> ],
      [ userId |-> <<"1", "0">>, username |-> "anna", contentLength |-> 1, timestamp |-> 50,
        elements |-> << [ type |-> "at", text |-> 0 ], [ type |-> "text", text |-> 1 ] >> ] }

StatInputs == SeqsUpTo(StatPool, MaxStatMessages)

\* calculateBasicStats applied to the history
ApplyCalculateBasicStats ==
    /\ ~aggregate.applied
    /\ aggregate' = [ applied |-> TRUE, counters |-> MessageLoop(inputMessages),
                       value |-> calculateBasicStats(inputMessages) ]
    /\ UNCHANGED <<completionBody, extraction>>
    /\ UNCHANGED <<cacheVars, llmVars, commandVars>>

\* nothing is being examined
PureIdle ==
    /\ aggregate = NoAggregate
    /\ completionBody = <<>>
    /\ extraction = NoExtraction

(***************************************************************************)
(* GroupAnalysisService.executeGroupAnalysis (services/analysis.ts)        *)
(***************************************************************************)
\* most calls of executeGroupAnalysis
MaxCommands == 2

\* config.ts:20 is 100; scaled down to the histories of AnalysisInputs
minMessages == 2

\* the groups a command can come from, and a whitelist with one of them
GroupIds == { "g1", "g2" }
Whitelist == << "g1" >>

\* no call yet
IdleCommand ==
    [ pc |-> "idle", count |-> 0, groupId |-> "none", replies |-> <<>>,
      queries |-> 0, runs |-> 0, collected |-> <<>> ]

\* the check of lines 46-51 passing whatever the whitelist is
GroupAllowed_NoWhitelist(allowed, groupId) == TRUE

\* the check of the whitelist, lines 46-51: TRUE when the call goes on
GroupAllowed(allowed, groupId) ==
    IF Len(allowed) > 0
    THEN IF ~(\E i \in 1..Len(allowed) : allowed[i] = groupId) THEN FALSE ELSE TRUE
    ELSE TRUE

\* the test of line 60 letting every non-empty history through
TooFewMessages_OnlyEmpty(messages) == Len(messages) = 0

\* the test of line 60
TooFewMessages(messages) == Len(messages) < minMessages

\* what the database answers to the query of getHistoricalMessages: an
\* error, or rows ordered by timestamp
\* longest history the database returns
MaxHistory == 4

\* a history of n messages, of two users in turn and every fourth with an
\* empty sender id, one message per hour
HistoryOf(n) ==
    [ i \in 1..n |->
        [ SampleMessages[1] EXCEPT !.timestamp = i,
                                   !.userId = IF i % 4 = 0 THEN <<>>
                                              ELSE IF i % 2 = 0 THEN SampleUser
                                              ELSE <<"c", "y">> ] ]

HistoryResults ==
    { [ ok |-> FALSE, rows |-> <<>> ] }
      \cup { [ ok |-> TRUE, rows |-> HistoryOf(n) ] : n \in 0..MaxHistory }

\* getHistoricalMessages from the answer on: an error is caught and gives []
getHistoricalMessages(result) == IF result.ok THEN result.rows ELSE <<>>

\* executeGroupAnalysis up to its return at line 49 or to the await of the
\* history query
ExecuteGroupAnalysis(groupId) ==
    /\ command.pc \in { "idle", "done" }
    /\ command.count < MaxCommands
    /\ phase # "running"
    /\ LET call == [ IdleCommand EXCEPT !.count = command.count + 1, !.groupId = groupId ]
       IN  IF ~GroupAllowed(allowedGroups, groupId)
           THEN command' = [ call EXCEPT !.pc = "done", !.replies = <<"notEnabled">> ]
           ELSE command' = [ call EXCEPT !.pc = "querying", !.replies = <<"collecting">>,
                                         !.queries = 1 ]
    /\ UNCHANGED allowedGroups
    /\ UNCHANGED <<cacheVars, llmVars, pureVars>>

\* the history query is answered: collectMessages returns, then the test of
\* line 60 and either the notice and the return, or analyzeGroupMessages up
\* to its await
HistorySettle(result) ==
    /\ command.pc = "querying"
    /\ LET messages == getHistoricalMessages(result)
       IN  IF TooFewMessages(messages)
           THEN /\ command' = [ command EXCEPT !.pc = "done", !.collected = messages,
                                               !.replies = Append(@, "insufficient") ]
                /\ UNCHANGED llmVars
           ELSE /\ analyzeGroupMessages(messages)
                /\ command' = [ command EXCEPT !.pc = "analyzing", !.collected = messages,
                                               !.runs = @ + 1 ]
    /\ UNCHANGED allowedGroups
    /\ UNCHANGED <<cacheVars, pureVars>>

\* analyzeGroupMessages has returned or thrown: sendReport, or the catch of
\* line 74
ReportSettle ==
    /\ command.pc = "analyzing"
    /\ phase \in { "reported", "failed" }
    /\ command' = [ command EXCEPT !.pc = "done",
                       !.replies = Append(@, IF phase = "reported" THEN "report"
                                             ELSE "failed") ]
    /\ UNCHANGED allowedGroups
    /\ UNCHANGED <<cacheVars, llmVars, pureVars>>

\* no command has been received, and every group is allowed
CommandIdle ==
    /\ allowedGroups = <<>>
    /\ command = IdleCommand

(***************************************************************************)
(* Specifications.                                                         *)
(***************************************************************************)
\* the analysis side with no analysis requested yet
AnalysisIdle ==
    /\ availableModels = <<>>
    /\ resolvedModel = None
    /\ firstResolved = None
    /\ selection = NoSelection
    /\ runsLaunched = 0
    /\ phase = "idle"
    /\ inputMessages = <<>>
    /\ stats = calculateBasicStats(<<>>)
    /\ usersArray = <<>>
    /\ tasks = [ k \in Kinds |-> IdleTask ]
    /\ discoveryRequests = 0
    /\ report = NoReport

\* One LLMService over successive analyses of the same history, with or
\* without a configured model, every answer to the discovery request, and
\* completions that fail or carry one record.
Init ==
    /\ CacheInit
    /\ CommandIdle
    /\ configModel \in { None, ConfiguredModel }
    /\ AnalysisIdle
    /\ PureIdle

Next ==
    \/ Launch(SampleMessages)
    \/ \E k \in Kinds, response \in DiscoveryResponses : DiscoverySettle(k, response)
    \/ \E k \in Kinds : ResolveContinue(k)
    \/ \E k \in Kinds, response \in PlainCompletionResponses :
          CompletionSettle(k, response)
    \/ JoinAll

Spec == Init /\ [][Next]_vars

\* Every discovery and completion request is answered in the end, a call
\* that waited for the model list resumes, and the continuation of a
\* settled Promise.all runs: the event loop runs every job that is ready.
Fairness ==
    /\ WF_vars(\E k \in Kinds, response \in DiscoveryResponses :
                  DiscoverySettle(k, response))
    /\ WF_vars(\E k \in Kinds : ResolveContinue(k))
    /\ WF_vars(\E k \in Kinds, response \in PlainCompletionResponses :
                  CompletionSettle(k, response))
    /\ WF_vars(JoinAll)

\* Spec with every request answered in the end.
SpecLive == Init /\ [][Next]_vars /\ Fairness

\* One analysis of every bounded message history, every completion, and an
\* endpoint that advertises at most one model.
ReportNext ==
    \/ \E msgs \in AnalysisInputs : runsLaunched = 0 /\ Launch(msgs)
    \/ \E k \in Kinds, response \in PlainDiscoveryResponses :
          DiscoverySettle(k, response)
    \/ \E k \in Kinds : ResolveContinue(k)
    \/ \E k \in Kinds, response \in CompletionResponses : CompletionSettle(k, response)
    \/ JoinAll

SpecReport == Init /\ [][ReportNext]_vars

\* selectModel over every advertised list of at most MaxAdvertised
\* identifiers of ModelPool.
SelectInit ==
    /\ CacheInit
    /\ CommandIdle
    /\ configModel = None
    /\ AnalysisIdle!2 /\ AnalysisIdle!3 /\ AnalysisIdle!4 /\ AnalysisIdle!5
    /\ AnalysisIdle!6 /\ AnalysisIdle!7 /\ AnalysisIdle!8 /\ AnalysisIdle!9
    /\ AnalysisIdle!10 /\ AnalysisIdle!11 /\ AnalysisIdle!12
    /\ availableModels \in SeqsUpTo(ModelPool, MaxAdvertised)
    /\ PureIdle

SpecSelect == SelectInit /\ [][ApplySelectModel]_vars

\* calculateBasicStats over every history of StatInputs.
StatsInit ==
    /\ CacheInit
    /\ CommandIdle
    /\ configModel = None
    /\ AnalysisIdle!1 /\ AnalysisIdle!2 /\ AnalysisIdle!3 /\ AnalysisIdle!4
    /\ AnalysisIdle!5 /\ AnalysisIdle!6 /\ AnalysisIdle!8 /\ AnalysisIdle!9
    /\ AnalysisIdle!10 /\ AnalysisIdle!11 /\ AnalysisIdle!12
    /\ inputMessages \in StatInputs
    /\ aggregate = NoAggregate
    /\ completionBody = <<>>
    /\ extraction = NoExtraction

SpecStats == StatsInit /\ [][ApplyCalculateBasicStats]_vars

\* The second loop of calculateBasicStats over the counters of RatioInputs.
RatiosInit ==
    /\ CacheInit
    /\ CommandIdle
    /\ configModel = None
    /\ AnalysisIdle
    /\ aggregate \in { [ NoAggregate EXCEPT !.counters = acc ] : acc \in RatioInputs }
    /\ completionBody = <<>>
    /\ extraction = NoExtraction

SpecRatios == RatiosInit /\ [][ApplyRatioLoop]_vars

\* An extraction call over every completion body of CompletionBodies.
ExtractInit ==
    /\ CacheInit
    /\ CommandIdle
    /\ configModel = None
    /\ AnalysisIdle
    /\ aggregate = NoAggregate
    /\ completionBody \in CompletionBodies
    /\ extraction = NoExtraction

SpecExtract == ExtractInit /\ [][ApplyExtraction]_vars

CacheSpecInit ==
    /\ CacheInit
    /\ CommandIdle
    /\ configModel = None
    /\ AnalysisIdle
    /\ PureIdle

\* The cache under ingestion, the sweep timer and the clock.  The database
\* never answers here: DbInsertSettle leaves the cache alone, so cache
\* properties do not depend on it.
CacheNext ==
    \/ \E event \in Events : HandleMessage(event)
    \/ CleanExpiredCacheTimer
    \/ Tick

SpecCache == CacheSpecInit /\ [][CacheNext]_vars

\* Ingestion with the database answering, of events stamped with the time
\* of their delivery.
IngestNext ==
    \/ \E event \in Events : event.timestamp = now /\ HandleMessage(event)
    \/ \E id \in dbPending, ok \in BOOLEAN : DbInsertSettle(id, ok)
    \/ CleanExpiredCacheTimer

SpecIngest == CacheSpecInit /\ [][IngestNext]_vars

\* Commands from two groups, with and without a whitelist, every answer of
\* the database, and the analyses they start.
CommandInit ==
    /\ CacheInit
    /\ configModel \in { None, ConfiguredModel }
    /\ AnalysisIdle
    /\ PureIdle
    /\ allowedGroups \in { <<>>, Whitelist }
    /\ command = IdleCommand

CommandNext ==
    \/ \E groupId \in GroupIds : ExecuteGroupAnalysis(groupId)
    \/ \E result \in HistoryResults : HistorySettle(result)
    \/ \E k \in Kinds, response \in PlainDiscoveryResponses :
          DiscoverySettle(k, response)
    \/ \E k \in Kinds : ResolveContinue(k)
    \/ \E k \in Kinds, response \in PlainCompletionResponses :
          CompletionSettle(k, response)
    \/ JoinAll
    \/ ReportSettle

SpecCommand == CommandInit /\ [][CommandNext]_vars

(***************************************************************************)
(* Properties of the analysis and of the model resolver.                   *)
(***************************************************************************)
\* the field of the report that an extraction call fills
ReportField(k) ==
    IF k = "topics" THEN report.topics
    ELSE IF k = "userTitles" THEN report.userTitles
    ELSE report.goldenQuotes

\* C1: the analysis is never aborted by a failed extraction call, and in the
\* report the field of a call that failed is the empty list while the field
\* of a call that returned is the value it returned.
FailureIsolation ==
    /\ phase # "failed"
    /\ phase = "reported" =>
         \A k \in Kinds :
            /\ tasks[k].promise.state # "pending"
            /\ tasks[k].promise.state = "rejected" => ReportField(k) = EmptyList
            /\ tasks[k].promise.state = "fulfilled" => ReportField(k) = tasks[k].promise.value

\* C1 witness: a report after the topic call failed and the other two
\* returned different non-empty lists
FailureIsolationWitness ==
    /\ phase = "reported"
    /\ tasks["topics"].promise.state = "rejected"
    /\ tasks["userTitles"].promise = Fulfilled(ListOf(Items(2)))
    /\ tasks["goldenQuotes"].promise = Fulfilled(ListOf(Items(1)))

\* the users that sent a message of the input
Participants(msgs) == { msgs[i].userId : i \in 1..Len(msgs) } \ { <<>> }

\* C2: when all three extraction calls fail the analysis still is not
\* aborted, and its report has three empty lists and the aggregate fields
\* that aggregation of the input alone gives.
StatisticsOnlyReport ==
    (\A k \in Kinds : tasks[k].promise.state = "rejected") =>
        /\ phase # "failed"
        /\ phase = "reported" =>
             LET basic == calculateBasicStats(inputMessages)
                 values == ObjectValues(basic.userStats)
             IN  /\ report.topics = EmptyList
                 /\ report.userTitles = EmptyList
                 /\ report.goldenQuotes = EmptyList
                 /\ report.totalMessages = Len(inputMessages)
                 /\ report.totalChars = basic.totalChars
                 /\ report.totalParticipants = Cardinality(Participants(inputMessages))
                 /\ report.emojiCount = basic.totalEmojiCount
                 /\ report.mostActivePeriod = findMostActivePeriod(SumActiveHours(values))
                 /\ report.userStats = Slice0(SortByMessageCount(values), maxUsersInReport)

\* C2 witness: a report on two users after three transport errors
StatisticsOnlyReportWitness ==
    /\ phase = "reported"
    /\ \A k \in Kinds : tasks[k].promise = Rejected("TransportError")
    /\ Cardinality(Participants(inputMessages)) = 2
    /\ report.totalChars > 0

\* C3: with no model configured, one analysis issues at most one discovery
\* request.
SingleDiscoveryPerRun ==
    configModel = None => discoveryRequests <= 1

\* C4: with a model configured every resolveModel returns it, so every
\* completion request carries it, and no discovery request is issued.
ConfiguredModelOnly ==
    configModel # None =>
        /\ discoveryRequests = 0
        /\ availableModels = <<>>
        /\ resolvedModel \in { None, configModel }
        /\ \A k \in Kinds :
              /\ tasks[k].pc \in { "idle", "completing", "settled" }
              /\ tasks[k].pc # "idle" => tasks[k].model = configModel

\* C4 witness: a second analysis reported with the configured model
ConfiguredModelOnlyWitness ==
    /\ configModel # None
    /\ runsLaunched = 2
    /\ phase = "reported"
    /\ \E k \in Kinds : tasks[k].promise.state = "fulfilled"

\* the markers of the preference list that some advertised identifier contains
MatchingMarkers(models) ==
    { p \in 1..Len(preferred) : \E i \in 1..Len(models) : Includes(models[i], preferred[p]) }

Least(S) == CHOOSE x \in S : \A y \in S : x <= y

\* C5: over a non-empty advertised list selectModel returns the first
\* identifier that contains the highest-priority marker contained in any
\* identifier, and the first identifier when none contains a marker.
SelectionByPriority ==
    (selection.applied /\ configModel = None /\ availableModels # <<>>) =>
        IF MatchingMarkers(availableModels) = {}
        THEN selection.value = availableModels[1]
        ELSE LET marker == preferred[Least(MatchingMarkers(availableModels))]
                 first == Least({ i \in 1..Len(availableModels) :
                                    Includes(availableModels[i], marker) })
             IN  selection.value = availableModels[first]

\* C5 witness: the advertised list foo-7b, qwen-14b yields qwen-14b
SelectionByPriorityWitness ==
    /\ selection.applied
    /\ availableModels = <<Foo7b, Qwen14b>>
    /\ selection.value = Qwen14b

\* C6: a call whose discovery request failed, or returned no usable
\* identifier, ends rejected without a completion request and without
\* memoizing a model.
NoModelNoRequest ==
    [][ \A k \in Kinds :
          (\/ tasks[k].pc = "discovering" /\ tasks'[k].pc = "settled"
           \/ /\ tasks[k].pc = "fetched"
              /\ tasks[k].fetched = "unusable"
              /\ tasks'[k].pc # "fetched")
            => /\ tasks'[k].promise.state = "rejected"
               /\ tasks'[k].model = None
               /\ resolvedModel' = resolvedModel
      ]_vars

\* C7: once a resolveModel has succeeded, every resolveModel that starts
\* later returns the identifier of that first success and issues no
\* discovery request.
MemoizedForLifetime ==
    [][ (runsLaunched' = runsLaunched + 1 /\ firstResolved # None) =>
            /\ discoveryRequests' = 0
            /\ \A k \in Kinds : tasks'[k].model = firstResolved
      ]_vars

\* user a ranks before user b: more messages, or as many and seen first
RanksBefore(msgs, a, b) ==
    LET countA == Cardinality({ i \in 1..Len(msgs) : msgs[i].userId = a })
        countB == Cardinality({ i \in 1..Len(msgs) : msgs[i].userId = b })
        firstA == Least({ i \in 1..Len(msgs) : msgs[i].userId = a })
        firstB == Least({ i \in 1..Len(msgs) : msgs[i].userId = b })
    IN  countA > countB \/ (countA = countB /\ firstA < firstB)

\* C19: the user list of the report is ordered by message count, highest
\* first, and users with the same count are in the order of their first
\* message in the input, whatever the user ids; so every user listed ranks
\* before the users listed after it and before those cut off.
RankedByCountThenFirstSeen ==
    phase = "reported" =>
        LET listed == report.userStats
            ids == { listed[i].userId : i \in 1..Len(listed) }
        IN  /\ \A i, j \in 1..Len(listed) :
                  i < j => RanksBefore(inputMessages, listed[i].userId, listed[j].userId)
            /\ \A i \in 1..Len(listed) :
                  \A other \in Participants(inputMessages) \ ids :
                      RanksBefore(inputMessages, listed[i].userId, other)

Min(a, b) == IF a < b THEN a ELSE b

\* C20: the user list of the report is the first min(participants,
\* maxUsersInReport) users of the full ranked list, totalParticipants counts
\* every user seen, and mostActiveUser is the first user listed, or null when
\* none is.
ReportTruncation ==
    phase = "reported" =>
        LET ranked == SortByMessageCount(
                          ObjectValues(calculateBasicStats(inputMessages).userStats))
            participants == Cardinality(Participants(inputMessages))
            kept == Min(participants, maxUsersInReport)
        IN  /\ Len(ranked) = participants
            /\ Len(report.userStats) = kept
            /\ \A i \in 1..kept : report.userStats[i] = ranked[i]
            /\ report.totalParticipants = participants
            /\ report.mostActiveUser
                 = IF kept = 0 THEN <<>> ELSE <<report.userStats[1]>>

\* C20 witness: more participants than maxUsersInReport, the list cut to
\* maxUsersInReport users and headed by the most active one
ReportTruncationWitness ==
    /\ phase = "reported"
    /\ report.totalParticipants > maxUsersInReport
    /\ Len(report.userStats) = maxUsersInReport
    /\ report.mostActiveUser = <<report.userStats[1]>>
    /\ report.userStats[1].messageCount = 1

(***************************************************************************)
(* Properties of calculateBasicStats.                                      *)
(***************************************************************************)
\* r is a / b rounded to the nearest integer, halves upwards (b > 0)
NearestTo(r, a, b) == 2 * r * b - b <= 2 * a /\ 2 * a < 2 * r * b + b

\* C15: for every user of the result, emojiRatio is the group-wide emoji
\* count divided by the user's message count, rounded to two decimals; so it
\* is non-zero exactly when that quotient is at least 0.005, whatever the
\* user's own emoji count.
EmojiRatioGroupWide ==
    aggregate.applied =>
        \A id \in DOMAIN aggregate.value.userStats.byId :
            LET emojiRatio == aggregate.value.userStats.byId[id].emojiRatio
                total == aggregate.counters.totalEmojiCount
                count == aggregate.counters.byId[id].messageCount
            IN  /\ NearestTo(emojiRatio, 100 * total, count)
                /\ emojiRatio # 0 <=> 200 * total >= count

\* C15 witness: a user without a face or image of their own, three messages
\* and the ratio 0.33 from the other user's single emoji
EmojiRatioGroupWideWitness ==
    /\ aggregate.applied
    /\ aggregate.counters.totalEmojiCount = 1
    /\ \E id \in DOMAIN aggregate.value.userStats.byId :
          /\ aggregate.counters.byId[id].emojiStats = 0
          /\ aggregate.counters.byId[id].messageCount = 3
          /\ aggregate.value.userStats.byId[id].emojiRatio = 33

\* C15 as stated: the rounded quotient, and a user who sent no emoji still
\* has a non-zero emojiRatio whenever another user sent one.
EmojiRatioNeverZero ==
    aggregate.applied =>
        \A id \in DOMAIN aggregate.value.userStats.byId :
            LET emojiRatio == aggregate.value.userStats.byId[id].emojiRatio
                total == aggregate.counters.totalEmojiCount
                count == aggregate.counters.byId[id].messageCount
            IN  /\ NearestTo(emojiRatio, 100 * total, count)
                /\ (aggregate.counters.byId[id].emojiStats = 0 /\ total > 0)
                      => emojiRatio # 0

\* the positions of the messages of user id in a history
IndicesOf(msgs, id) == { i \in 1..Len(msgs) : msgs[i].userId = id }

\* how many elements of one of the types the messages of user id carry
ElementCount(msgs, id, types) ==
    Cardinality({ p \in UNION { { <<i, j>> : j \in 1..Len(msgs[i].elements) } :
                                i \in IndicesOf(msgs, id) } :
                    msgs[p[1]].elements[p[2]].type \in types })

\* how many messages of user id were sent in the hours 0 to 5
NightCount(msgs, id) ==
    Cardinality({ i \in IndicesOf(msgs, id) : msgs[i].timestamp % 24 < 6 })

\* C16: every user of the result has at least one message, avgChars is
\* charCount / messageCount rounded to one decimal, nightRatio is the share of
\* the user's messages sent in the hours 0 to 5 and replyRatio is replyCount /
\* messageCount, both rounded to two decimals, all from the final counters.
RatiosFromFinalCounters ==
    aggregate.applied =>
        /\ DOMAIN aggregate.value.userStats.byId = Participants(inputMessages)
        /\ \A id \in DOMAIN aggregate.value.userStats.byId :
              LET user == aggregate.value.userStats.byId[id]
              IN  /\ user.messageCount >= 1
                  /\ user.messageCount = Cardinality(IndicesOf(inputMessages, id))
                  /\ user.replyCount = ElementCount(inputMessages, id, { "reply" })
                  /\ NearestTo(user.avgChars, 10 * user.charCount, user.messageCount)
                  /\ NearestTo(user.nightRatio, 100 * NightCount(inputMessages, id),
                               user.messageCount)
                  /\ NearestTo(user.replyRatio, 100 * user.replyCount, user.messageCount)

\* C16 witness: a user with two of three messages at night, nightRatio 0.67,
\* and an average that is not a whole number
RatiosFromFinalCountersWitness ==
    /\ aggregate.applied
    /\ \E id \in DOMAIN aggregate.value.userStats.byId :
          LET user == aggregate.value.userStats.byId[id]
          IN  /\ user.messageCount = 3
              /\ NightCount(inputMessages, id) = 2
              /\ user.nightRatio = 67
              /\ user.avgChars % 10 # 0

RECURSIVE TextLength(_)
TextLength(elements) ==
    IF elements = <<>> THEN 0
    ELSE (IF Head(elements).type = "text" THEN Head(elements).text ELSE 0)
           + TextLength(Tail(elements))

\* what a message is to contribute: the length of its text elements when it
\* has elements, the length of its content when it has none
ExpectedChars(msg) ==
    IF msg.elements # <<>> THEN TextLength(msg.elements) ELSE msg.contentLength

RECURSIVE SumExpectedChars(_, _)
SumExpectedChars(msgs, indices) ==
    IF indices = {} THEN 0
    ELSE LET i == CHOOSE x \in indices : TRUE
         IN  ExpectedChars(msgs[i]) + SumExpectedChars(msgs, indices \ {i})

\* C17: a message with elements adds the summed length of its text elements
\* to the user's and to the total character count; the length of the content
\* is used only for a message without elements.
CharCountFromSegments ==
    aggregate.applied =>
        /\ aggregate.value.totalChars
             = SumExpectedChars(inputMessages, 1..Len(inputMessages))
        /\ \A id \in DOMAIN aggregate.value.userStats.byId :
              aggregate.value.userStats.byId[id].charCount
                = SumExpectedChars(inputMessages, IndicesOf(inputMessages, id))

\* the totals and, per user, everything but the nickname
Counts(basic) ==
    [ totalChars |-> basic.totalChars,
      totalEmojiCount |-> basic.totalEmojiCount,
      users |-> [ id \in DOMAIN basic.userStats.byId |->
                    [ basic.userStats.byId[id] EXCEPT !.nickname = "any" ] ] ]

\* C18: every permutation of the history gives the same totalChars and
\* totalEmojiCount and, for every user, the same counters, hours, lastActive
\* and ratios.
OrderInsensitiveCounts ==
    aggregate.applied =>
        \A p \in Permutations(1..Len(inputMessages)) :
            Counts(calculateBasicStats([ i \in 1..Len(inputMessages) |->
                                           inputMessages[p[i]] ]))
              = Counts(aggregate.value)

\* C18 witness: three different messages of two users, the latest not last
OrderInsensitiveCountsWitness ==
    /\ aggregate.applied
    /\ Len(inputMessages) = 3
    /\ Cardinality({ inputMessages[i] : i \in 1..3 }) = 3
    /\ Cardinality(DOMAIN aggregate.value.userStats.byId) = 2
    /\ inputMessages[1].timestamp > inputMessages[3].timestamp

(***************************************************************************)
(* Properties of the extraction call.                                      *)
(***************************************************************************)
WhitespaceOnly(body) == \A i \in 1..Len(body) : body[i] = "ws"

\* the body has an opening yaml or yml fence with three backquotes after it
HasYamlBlock(body) ==
    \E i, j \in 1..Len(body) :
        i < j /\ body[i] \in OpenFences /\ body[j] \in CloseFences

\* what stands between the first such opening fence and the next three
\* backquotes
FirstBlock(body) ==
    LET open == Least({ i \in 1..Len(body) :
                          /\ body[i] \in OpenFences
                          /\ \E j \in (i + 1)..Len(body) : body[j] \in CloseFences })
        close == Least({ j \in (open + 1)..Len(body) : body[j] \in CloseFences })
    IN  SubSeq(body, open + 1, close - 1)

\* C13: an empty or whitespace-only completion body makes the extraction
\* call return the empty list; no missing-block error is raised.
EmptyBodyEmptyResult ==
    (extraction.applied /\ WhitespaceOnly(completionBody)) =>
        extraction.promise = Fulfilled(EmptyList)

\* C13 witness: a body of white space only has given the empty list
EmptyBodyEmptyResultWitness ==
    /\ extraction.applied
    /\ completionBody = <<"ws", "ws">>
    /\ extraction.promise = Fulfilled(EmptyList)

\* C14: for a body that is not empty, the extraction call is rejected with
\* the missing-block error when the body has no fenced yaml block, and with
\* the decode error when the block is there but does not decode; it returns
\* no list in either case.
NonEmptyBodyErrors ==
    (extraction.applied /\ ~WhitespaceOnly(completionBody)) =>
        /\ ~HasYamlBlock(completionBody) =>
              extraction.promise = Rejected("MissingStructuredBlock")
        /\ (/\ HasYamlBlock(completionBody)
            /\ yamlLoad(FirstBlock(completionBody)).state = "rejected") =>
              extraction.promise = Rejected("DecodeError")

\* C14 witness: prose, then a block that is not YAML, rejected with the
\* decode error
NonEmptyBodyErrorsWitness ==
    /\ extraction.applied
    /\ completionBody = <<"prose", "fence:yaml", "bad", "fence">>
    /\ extraction.promise = Rejected("DecodeError")

(***************************************************************************)
(* Properties of the recency cache.                                        *)
(***************************************************************************)
Range(s) == { s[i] : i \in 1..Len(s) }
Age(msg) == now - msg.timestamp
CacheKeys == Platforms \X SenderIds
\* the messages ever inserted under a key, oldest first
LogFor(key) == SelectSeq(cacheLog, LAMBDA m : CacheKey(m) = key)
AllFresh(msgs) == \A i \in 1..Len(msgs) : Age(msgs[i]) < cacheExpiration

\* C8: every key's cached sequence has at most cacheSize messages, and a key
\* that received more than cacheSize insertions, none of them expired, holds
\* exactly cacheSize messages.
CacheCapacity ==
    /\ \A key \in DOMAIN messageCache : Len(messageCache[key]) <= cacheSize
    /\ \A key \in CacheKeys :
          (Len(LogFor(key)) > cacheSize /\ AllFresh(LogFor(key)))
            => /\ key \in DOMAIN messageCache
               /\ Len(messageCache[key]) = cacheSize

\* C8 witness: cacheSize + 1 insertions under one key, cacheSize entries kept
CacheCapacityWitness ==
    \E key \in DOMAIN messageCache :
        /\ Len(LogFor(key)) = cacheSize + 1
        /\ AllFresh(LogFor(key))
        /\ Len(messageCache[key]) = cacheSize

\* first index of x in s
Pos(s, x) == CHOOSE i \in 1..Len(s) : s[i] = x /\ \A j \in 1..(i - 1) : s[j] # x

\* C9: after addToCache(m), m is the head of its key's sequence, the sequence
\* is ordered most recently inserted first, the messages kept from before keep
\* their relative order, and the only message dropped, when the capacity is
\* exceeded, is the one inserted earliest.
CacheOrdering ==
    [][ Len(cacheLog') = Len(cacheLog) + 1 =>
          LET m == cacheLog'[Len(cacheLog')]
              key == CacheKey(m)
              old == CacheGet(messageCache, key)
              new == CacheGet(messageCache', key)
              dropped == Range(old) \ Range(new)
          IN  /\ new # <<>>
              /\ new[1] = m
              /\ Range(new) \subseteq Range(old) \cup {m}
              /\ \A i, j \in 1..Len(new) : i < j => new[i].id > new[j].id
              /\ \A x, y \in Range(old) \cap Range(new) :
                    Pos(old, x) < Pos(old, y) => Pos(new, x) < Pos(new, y)
              /\ IF Len(old) + 1 > cacheSize
                 THEN \E x \in Range(old) :
                        /\ dropped = {x}
                        /\ \A y \in Range(old) : x.id <= y.id
                 ELSE dropped = {}
      ]_cacheVars

\* C9 witness: an insertion has just pushed a key over its capacity
CacheOrderingWitness ==
    /\ cacheLog # <<>>
    /\ LET m == cacheLog[Len(cacheLog)]
           key == CacheKey(m)
       IN  /\ Len(LogFor(key)) > cacheSize
           /\ AllFresh(LogFor(key))
           /\ key \in DOMAIN messageCache
           /\ messageCache[key][1] = m
           /\ LogFor(key)[1] \notin Range(messageCache[key])

\* C10: right after cleanExpiredCache no cached message is older than the
\* expiration window, and a key whose messages were all older is gone.
SweepPostcondition ==
    /\ [](justSwept =>
            \A key \in DOMAIN messageCache :
                \A i \in 1..Len(messageCache[key]) :
                    Age(messageCache[key][i]) <= cacheExpiration)
    /\ [][ justSwept' =>
            \A key \in DOMAIN messageCache :
                (\A i \in 1..Len(messageCache[key]) :
                    Age(messageCache[key][i]) > cacheExpiration)
                  => key \notin DOMAIN messageCache'
       ]_cacheVars

\* C10 witness: a sweep has just removed a key whose messages had all expired
\* while another key kept a message
SweepPostconditionWitness ==
    /\ justSwept
    /\ \E key \in CacheKeys :
          /\ LogFor(key) # <<>>
          /\ Len(LogFor(key)) <= cacheSize
          /\ \A i \in 1..Len(LogFor(key)) : Age(LogFor(key)[i]) > cacheExpiration
          /\ key \notin DOMAIN messageCache
    /\ DOMAIN messageCache # {}

\* C11: in every state of the cache, every key present maps to a non-empty
\* message sequence.
NoEmptyEntries ==
    \A key \in DOMAIN messageCache : messageCache[key] # <<>>

\* C11 witness: a sweep has just removed the key of one sender, all of whose
\* messages had expired, and some but not all messages of another sender
NoEmptyEntriesWitness ==
    /\ justSwept
    /\ \E gone \in CacheKeys \ DOMAIN messageCache : LogFor(gone) # <<>>
    /\ \E key \in DOMAIN messageCache :
          /\ Len(LogFor(key)) <= cacheSize
          /\ Len(messageCache[key]) < Len(LogFor(key))

\* C12: a sweep removes a cached message if and only if its age exceeds the
\* expiration window; a message whose age is the window or less is retained.
SweepRemovesOnlyOlder ==
    [][ justSwept' =>
          \A key \in DOMAIN messageCache :
              \A i \in 1..Len(messageCache[key]) :
                  LET msg == messageCache[key][i]
                  IN  msg \notin Range(CacheGet(messageCache', key))
                        <=> Age(msg) > cacheExpiration
      ]_cacheVars

(***************************************************************************)
(* Properties of the most-active period.                                   *)
(***************************************************************************)
\* the messages of msgs sent in hour h, over all users
HourCount(msgs, h) ==
    Cardinality({ i \in 1..Len(msgs) : msgs[i].userId # <<>> /\ msgs[i].timestamp % 24 = h })

\* C21: the most-active period of a report is <<h, h + 1>> for the hour h
\* whose message count over all users is maximal, the lowest such hour when
\* several are (hour 0 when no hour has a message).
MostActivePeriodLowestArgmax ==
    report.produced =>
        \E h \in Hours :
            /\ report.mostActivePeriod = <<h, h + 1>>
            /\ \A g \in Hours : HourCount(inputMessages, g) <= HourCount(inputMessages, h)
            /\ \A g \in Hours : g < h => HourCount(inputMessages, g) < HourCount(inputMessages, h)

\* C21 witness: a report on two messages of different users in hours 23
\* and 5, which tie
MostActivePeriodLowestArgmaxWitness ==
    /\ report.produced
    /\ Len(inputMessages) = 2
    /\ inputMessages[1].timestamp % 24 = 23
    /\ inputMessages[2].timestamp % 24 = 5
    /\ report.mostActivePeriod = <<5, 6>>

(***************************************************************************)
(* Properties of the order of the steps of one analysis.                   *)
(***************************************************************************)
\* C22: once a prompt has been built or a discovery or completion request
\* issued, both loops of the aggregation of the input have run: the stored
\* result is the finished one and the three prompts are built from it.
AggregationBeforeExtraction ==
    (\E k \in Kinds : tasks[k].pc # "idle" \/ tasks[k].prompt # IdleTask.prompt)
        \/ discoveryRequests > 0 =>
        LET finished == RatioLoop(MessageLoop(inputMessages))
            sorted == SortByMessageCount(ObjectValues(finished.userStats))
        IN  /\ stats = finished
            /\ tasks["topics"].prompt = TopicPrompt(finished.allMessagesText)
            /\ tasks["userTitles"].prompt = UserTitlesPrompt(sorted)
            /\ tasks["goldenQuotes"].prompt = GoldenQuotesPrompt(finished.allMessagesText)

\* C22 witness: a discovery request and no completion request yet in
\* flight, for a history whose user has non-zero ratios
AggregationBeforeExtractionWitness ==
    /\ phase = "running"
    /\ discoveryRequests > 0
    /\ tasks["topics"].pc = "discovering"
    /\ Len(tasks["userTitles"].prompt.users) = 1
    /\ tasks["userTitles"].prompt.users[1].emojiRatio > 0
    /\ tasks["userTitles"].prompt.users[1].avgChars > 0

(***************************************************************************)
(* Properties of ingestion.                                                *)
(***************************************************************************)
\* the three conditions under which an event is to be stored
PassesFilters(event) ==
    /\ \A word \in wordsFilter : ~Includes(event.text, word)
    /\ event.userId \notin userFilter
    /\ event.channelType = "group"

\* C23: handling an event that passes the three filters puts its message at
\* the head of its cache entry and hands it to persistence; handling an
\* event that fails one of them changes neither the cache nor the database
\* nor the set of pending inserts.  Only messages handed over reach the
\* database.
IngestionFilter ==
    [][ /\ \A event \in Events :
             HandleMessage(event) =>
                IF PassesFilters(event)
                THEN LET key == <<event.platform, event.userId>>
                     IN  /\ key \in DOMAIN messageCache'
                         /\ Head(messageCache'[key]).id = eventCount'
                         /\ Head(messageCache'[key]).content = event.text
                         /\ Head(messageCache'[key]).userId = event.userId
                         /\ eventCount' \in dbPending' \ dbPending
                ELSE /\ messageCache' = messageCache
                     /\ dbPending' = dbPending
                     /\ db' = db
        /\ db' \subseteq db \cup dbPending
      ]_vars

\* C23 witness: three events handled, of which one was dropped, one is
\* cached with its insert pending and one is cached and in the database
IngestionFilterWitness ==
    /\ eventCount = 3
    /\ Len(cacheLog) = 2
    /\ Cardinality(dbPending) = 1
    /\ Cardinality(db) = 1
    /\ \E key \in DOMAIN messageCache : Len(messageCache[key]) > 0

(***************************************************************************)
(* Properties of the configured item limits.                               *)
(***************************************************************************)
\* C25: in every report the topics are at most maxTopics, the user titles
\* at most maxUserTitles and the golden quotes at most maxGoldenQuotes.
ItemLimitsBoundReport ==
    report.produced =>
        /\ Len(report.topics.items) <= maxTopics
        /\ Len(report.userTitles.items) <= maxUserTitles
        /\ Len(report.goldenQuotes.items) <= maxGoldenQuotes

(***************************************************************************)
(* Properties of the join of the three extraction calls.                   *)
(***************************************************************************)
\* C27: the step that ends the wait of an analysis, and any step that
\* assembles a report, is taken only when each of the three extraction
\* calls has settled (fulfilled or rejected), none being still in flight.
BarrierJoin ==
    [][ (phase = "running" /\ phase' # "running") \/ (report'.produced /\ report' # report)
          => \A k \in Kinds : /\ tasks[k].pc = "settled"
                              /\ tasks[k].promise.state \in { "fulfilled", "rejected" }
                              /\ tasks'[k] = tasks[k]
      ]_vars

\* C27 witness: a report assembled after the user-title call failed for
\* want of a block and the other two returned records
BarrierJoinWitness ==
    /\ phase = "reported"
    /\ report.produced
    /\ tasks["userTitles"].promise = Rejected("MissingStructuredBlock")
    /\ tasks["topics"].promise = Fulfilled(ListOf(Items(1)))
    /\ tasks["goldenQuotes"].promise = Fulfilled(ListOf(Items(2)))

(***************************************************************************)
(* Properties of insertions interleaved with sweeps.                       *)
(***************************************************************************)
\* C30: in every interleaving of insertions, sweeps and the passing of time,
\* a sweep keeps every cached message whose age is below the expiration
\* window and leaves unchanged every key whose messages are all below it;
\* such a message leaves the cache only as the oldest message of a full key
\* into which a message is inserted.
FreshSurvivesInterleaving ==
    [][ \A key \in DOMAIN messageCache :
          /\ justSwept' /\ AllFresh(messageCache[key]) =>
                /\ key \in DOMAIN messageCache'
                /\ messageCache'[key] = messageCache[key]
          /\ \A i \in 1..Len(messageCache[key]) :
                LET msg == messageCache[key][i]
                IN  Age(msg) < cacheExpiration
                      /\ msg \notin Range(CacheGet(messageCache', key)) =>
                        /\ ~justSwept'
                        /\ eventCount' = eventCount + 1
                        /\ Len(messageCache[key]) = cacheSize
                        /\ i = cacheSize
                        /\ Len(messageCache'[key]) = cacheSize
                        /\ messageCache'[key][1].id = eventCount'
      ]_cacheVars

\* C30 witness: right after a sweep that removed an expired message of a
\* key, a message of the same key inserted before that sweep and still
\* below the window is cached
FreshSurvivesInterleavingWitness ==
    /\ justSwept
    /\ \E key \in DOMAIN messageCache :
          /\ Len(LogFor(key)) = 2
          /\ Age(LogFor(key)[1]) >= cacheExpiration
          /\ Age(LogFor(key)[2]) < cacheExpiration
          /\ Age(LogFor(key)[2]) >= 0
          /\ messageCache[key] = << LogFor(key)[2] >>

(***************************************************************************)
(* Properties of reads of the cache.                                       *)
(***************************************************************************)
\* C29: whatever a read of the cache returns holds no message older than
\* the expiration window, swept or not.  The read of the cache is the one
\* of addToCache, this.messageCache.get(cacheKey) || [].
StaleNeverRead ==
    [][ \A event \in Events :
          HandleMessage(event) /\ shouldStoreMessage(event) =>
             LET read == CacheGet(messageCache, <<event.platform, event.userId>>)
             IN  \A i \in 1..Len(read) : Age(read[i]) <= cacheExpiration
      ]_cacheVars

(***************************************************************************)
(* Properties of executeGroupAnalysis.                                     *)
(***************************************************************************)
\* C24: a command from a group that a non-empty allowedGroups does not
\* contain is answered with the not-enabled notice alone and starts no
\* history query, no aggregation and no LLM request, then or later; with
\* allowedGroups empty, and for a listed group, the command goes on to the
\* history query.
WhitelistGate ==
    [][ /\ \A groupId \in GroupIds :
             ExecuteGroupAnalysis(groupId) =>
                IF allowedGroups # <<>> /\ groupId \notin Range(allowedGroups)
                THEN /\ command'.replies = <<"notEnabled">>
                     /\ command'.pc = "done"
                     /\ command'.queries = 0
                     /\ command'.runs = 0
                     /\ UNCHANGED llmVars
                ELSE /\ command'.pc = "querying"
                     /\ command'.queries = 1
                     /\ "notEnabled" \notin Range(command'.replies)
        /\ command.replies = <<"notEnabled">> /\ command'.count = command.count =>
             /\ command' = command
             /\ UNCHANGED llmVars
      ]_vars

\* C24 witness: under a whitelist, a command of the listed group got its
\* report and a later command of the other group got the notice
WhitelistGateWitness ==
    /\ allowedGroups = Whitelist
    /\ command.count = 2
    /\ command.groupId = "g2"
    /\ command.replies = <<"notEnabled">>
    /\ command.queries = 0
    /\ runsLaunched = 1
    /\ phase = "reported"

\* C26: when the history query gives fewer than minMessages messages, none
\* after a failure of the query, the command is answered with the
\* insufficient-messages notice and starts no aggregation and no LLM
\* request, then or later; otherwise it starts the analysis.
MinimumMessagesGate ==
    [][ /\ \A result \in HistoryResults :
             HistorySettle(result) =>
                LET n == IF result.ok THEN Len(result.rows) ELSE 0
                IN  IF n < minMessages
                    THEN /\ command'.replies = Append(command.replies, "insufficient")
                         /\ command'.pc = "done"
                         /\ command'.runs = 0
                         /\ Len(command'.collected) = n
                         /\ UNCHANGED llmVars
                    ELSE /\ command'.runs = 1
                         /\ runsLaunched' = runsLaunched + 1
                         /\ inputMessages' = result.rows
                         /\ "insufficient" \notin Range(command'.replies)
        /\ "insufficient" \in Range(command.replies) /\ command'.count = command.count =>
             /\ command' = command
             /\ UNCHANGED llmVars
      ]_vars

\* C26 witness: a command whose query gave one message, one short of
\* minMessages, after a command that was analysed
MinimumMessagesGateWitness ==
    /\ command.count = 2
    /\ command.replies = <<"collecting", "insufficient">>
    /\ Len(command.collected) = 1
    /\ command.runs = 0
    /\ runsLaunched = 1

(***************************************************************************)
(* Liveness of an analysis.                                                *)
(***************************************************************************)
\* C28: when every discovery and completion request is answered in the end,
\* every analysis that was started returns a report in the end; it does not
\* wait for ever on calls that have settled.
RunEventuallyReports ==
    (phase = "running") ~> (phase = "reported" /\ report.produced)

\* C28 witness: the second analysis has returned a report although the
\* model list could not be had and its three calls failed
RunEventuallyReportsWitness ==
    /\ runsLaunched = 2
    /\ phase = "reported"
    /\ report.produced
    /\ \A k \in Kinds : tasks[k].pc = "settled" /\ tasks[k].promise.state = "rejected"
    /\ \E k \in Kinds : tasks[k].promise.error = "ModelListUnavailable"

(***************************************************************************)
(* Properties of the order and the failures of ingestion.                  *)
(***************************************************************************)
\* C31: when a message is handed to the database it is already at the head
\* of its cache entry; a database write that fails changes nothing in the
\* cache; and no rejection of handleMessage ever reaches the event source.
CacheFirstFaultTolerant ==
    /\ [](handlerErrors = 0)
    /\ [][ /\ \A id \in dbPending' \ dbPending :
                \E key \in DOMAIN messageCache' : Head(messageCache'[key]).id = id
           /\ \A id \in dbPending \ (dbPending' \cup db') :
                /\ messageCache' = messageCache
                /\ handlerErrors' = handlerErrors
         ]_vars

\* C31 witness: the write of a cached message has failed, the message is
\* still cached, and another write succeeded
CacheFirstFaultTolerantWitness ==
    /\ handlerErrors = 0
    /\ dbPending = {}
    /\ Len(cacheLog) = 2
    /\ Cardinality(db) = 1
    /\ \E i \in 1..2 :
          /\ cacheLog[i].id \notin db
          /\ \E key \in DOMAIN messageCache : cacheLog[i] \in Range(messageCache[key])

(***************************************************************************)
(* Properties of the model named in the requests of one analysis.          *)
(***************************************************************************)
\* C32: the completion requests issued during one analysis all carry the
\* same model identifier.
SameModelWithinRun ==
    \A j \in Kinds, k \in Kinds :
        tasks[j].model # None /\ tasks[k].model # None => tasks[j].model = tasks[k].model

(***************************************************************************)
(* Properties of the user-stats sequence between its derivation and its    *)
(* ranking.                                                                *)
(***************************************************************************)
\* C33: while the extraction calls are under way, the user-stats sequence
\* the assembler is going to rank is, in order and in contents, the one
\* that was derived from the aggregate, Object.values(userStats).
UsersSequenceReadOnly ==
    phase = "running" => usersArray = ObjectValues(stats.userStats)

(***************************************************************************)
(* Properties of the counters of the aggregate.                            *)
(***************************************************************************)
\* the sum of a sequence of numbers
RECURSIVE SumSeq(_)
SumSeq(numbers) ==
    IF numbers = <<>> THEN 0 ELSE Head(numbers) + SumSeq(Tail(numbers))

\* the sum of field(user) over a sequence of users
SumOver(users, field(_)) == SumSeq([ i \in 1..Len(users) |-> field(users[i]) ])

\* C34: the totalMessages of a report is the sum of messageCount over all
\* aggregated users, whatever the sender ids of the input are.
MessageCountConserved ==
    report.produced =>
        report.totalMessages
          = SumOver(ObjectValues(stats.userStats), LAMBDA user : user.messageCount)

\* C36: in the result of the aggregation every user's 24 hour buckets add
\* up to the user's messageCount and buckets 0..5 to nightMessages;
\* totalChars is the sum of the users' charCount and totalEmojiCount the sum
\* of the users' emoji counts.
CounterConsistency ==
    aggregate.applied =>
        LET basic == aggregate.value
            users == ObjectValues(basic.userStats)
        IN  /\ \A i \in 1..Len(users) :
                  /\ SumSeq([ h \in 1..24 |-> users[i].activeHours[h - 1] ])
                       = users[i].messageCount
                  /\ SumSeq([ h \in 1..6 |-> users[i].activeHours[h - 1] ])
                       = users[i].nightMessages
            /\ basic.totalChars = SumOver(users, LAMBDA user : user.charCount)
            /\ basic.totalEmojiCount = SumOver(users, LAMBDA user : user.emojiStats)

\* C36 witness: two users, one with a message at night and one in hour 6,
\* and an emoji in the group
CounterConsistencyWitness ==
    /\ aggregate.applied
    /\ Cardinality(DOMAIN aggregate.value.userStats.byId) = 2
    /\ aggregate.value.totalEmojiCount > 0
    /\ \E id \in DOMAIN aggregate.value.userStats.byId :
          LET user == aggregate.value.userStats.byId[id]
          IN  /\ user.activeHours[6] = 1
              /\ user.nightMessages = 1
              /\ user.messageCount = 2

(***************************************************************************)
(* Properties of the shape of the extraction fields.                       *)
(***************************************************************************)
\* C35: each of topics, userTitles and goldenQuotes of a produced report is
\* a list, whatever the fenced block of the completion decoded to.
ExtractionFieldsAreLists ==
    report.produced =>
        \A k \in Kinds : ReportField(k).type = "list"

====
